---- MODULE Spec2Model ----
(***************************************************************************)
(* A model of the XPUM measurement pipeline: the rate handler               *)
(* (TimeWeightedAverageDataHandler) that turns raw counters into rates,     *)
(* and the query assembly of DataLogic (data_logic.cpp).                    *)
(***************************************************************************)
EXTENDS Integers, Sequences, FiniteSets, TLC

(***************************************************************************)
(* Bounds of the model.                                                     *)
(***************************************************************************)
\* width of the modelled unsigned integers (uint64_t in the source)
Bits == 4
\* highest sub-device (tile) count of a device
MaxSubdevice == 2

\* 2^Bits: unsigned arithmetic wraps modulo this
Modulus == 2 ^ Bits
\* std::numeric_limits<uint64_t>::max(), the "no data" sentinel
UINT64_MAX == Modulus - 1
\* unsigned subtraction and division as the C++ code performs them
USub(a, b) == (a - b) % Modulus
UDiv(a, b) == a \div b

\* optional values: a null shared_ptr is <<>>, a pointer to x is <<x>>
NULL == <<>>
Ptr(x) == <<x>>
Deref(p) == p[1]

\* the ascending sequence of a finite set of naturals (std::map iteration order)
RECURSIVE Ascending(_)
Ascending(S) ==
    IF S = {} THEN <<>>
    ELSE LET m == CHOOSE x \in S : \A y \in S : x <= y
         IN <<m>> \o Ascending(S \ {m})

\* f with key k erased (std::map::erase)
Erase(f, k) == [x \in (DOMAIN f) \ {k} |-> f[x]]

(***************************************************************************)
(* Utility: the metric type tables (utility.cpp).                           *)
(***************************************************************************)
\* Utility::measurementTypeFromCapability
measurementTypeFromCapability(capability) ==
    CASE capability = "DeviceCapability::METRIC_TEMPERATURE" -> "METRIC_TEMPERATURE"
      [] capability = "DeviceCapability::METRIC_FREQUENCY" -> "METRIC_FREQUENCY"
      [] capability = "DeviceCapability::METRIC_POWER" -> "METRIC_POWER"
      [] capability = "DeviceCapability::METRIC_ENERGY" -> "METRIC_ENERGY"
      [] capability = "DeviceCapability::METRIC_MEMORY_USED_UTILIZATION" -> "METRIC_MEMORY_USED"
      [] capability = "DeviceCapability::METRIC_MEMORY_THROUGHPUT_BANDWIDTH" -> "METRIC_MEMORY_READ"
      [] capability = "DeviceCapability::METRIC_COMPUTATION" -> "METRIC_COMPUTATION"
      [] capability = "DeviceCapability::METRIC_ENGINE_UTILIZATION" -> "METRIC_ENGINE_UTILIZATION"
      [] capability = "DeviceCapability::METRIC_ENGINE_GROUP_COMPUTE_ALL_UTILIZATION" -> "METRIC_ENGINE_GROUP_COMPUTE_ALL_UTILIZATION"
      [] capability = "DeviceCapability::METRIC_ENGINE_GROUP_MEDIA_ALL_UTILIZATION" -> "METRIC_ENGINE_GROUP_MEDIA_ALL_UTILIZATION"
      [] capability = "DeviceCapability::METRIC_ENGINE_GROUP_COPY_ALL_UTILIZATION" -> "METRIC_ENGINE_GROUP_COPY_ALL_UTILIZATION"
      [] capability = "DeviceCapability::METRIC_ENGINE_GROUP_RENDER_ALL_UTILIZATION" -> "METRIC_ENGINE_GROUP_RENDER_ALL_UTILIZATION"
      [] capability = "DeviceCapability::METRIC_ENGINE_GROUP_3D_ALL_UTILIZATION" -> "METRIC_ENGINE_GROUP_3D_ALL_UTILIZATION"
      [] capability = "DeviceCapability::METRIC_EU_ACTIVE_STALL_IDLE" -> "METRIC_EU_ACTIVE"
      [] capability = "DeviceCapability::METRIC_RAS_ERROR" -> "METRIC_RAS_ERROR_CAT_RESET"
      [] capability = "DeviceCapability::METRIC_MEMORY_TEMPERATURE" -> "METRIC_MEMORY_TEMPERATURE"
      [] capability = "DeviceCapability::METRIC_FREQUENCY_THROTTLE" -> "METRIC_FREQUENCY_THROTTLE"
      [] capability = "DeviceCapability::METRIC_FREQUENCY_THROTTLE_REASON_GPU" -> "METRIC_FREQUENCY_THROTTLE_REASON_GPU"
      [] capability = "DeviceCapability::METRIC_PCIE_READ_THROUGHPUT" -> "METRIC_PCIE_READ_THROUGHPUT"
      [] capability = "DeviceCapability::METRIC_PCIE_WRITE_THROUGHPUT" -> "METRIC_PCIE_WRITE_THROUGHPUT"
      [] capability = "DeviceCapability::METRIC_PCIE_READ" -> "METRIC_PCIE_READ"
      [] capability = "DeviceCapability::METRIC_PCIE_WRITE" -> "METRIC_PCIE_WRITE"
      [] capability = "DeviceCapability::METRIC_FABRIC_THROUGHPUT" -> "METRIC_FABRIC_THROUGHPUT"
      [] OTHER -> "METRIC_MAX"

\* Utility::capabilityFromMeasurementType
capabilityFromMeasurementType(measurementType) ==
    CASE measurementType = "METRIC_TEMPERATURE" -> "DeviceCapability::METRIC_TEMPERATURE"
      [] measurementType = "METRIC_FREQUENCY" -> "DeviceCapability::METRIC_FREQUENCY"
      [] measurementType = "METRIC_REQUEST_FREQUENCY" -> "DeviceCapability::METRIC_FREQUENCY"
      [] measurementType = "METRIC_MEDIA_ENGINE_FREQUENCY" -> "DeviceCapability::METRIC_FREQUENCY"
      [] measurementType = "METRIC_POWER" -> "DeviceCapability::METRIC_POWER"
      [] measurementType = "METRIC_MEMORY_USED" -> "DeviceCapability::METRIC_MEMORY_USED_UTILIZATION"
      [] measurementType = "METRIC_MEMORY_UTILIZATION" -> "DeviceCapability::METRIC_MEMORY_USED_UTILIZATION"
      [] measurementType = "METRIC_MEMORY_BANDWIDTH" -> "DeviceCapability::METRIC_MEMORY_THROUGHPUT_BANDWIDTH"
      [] measurementType = "METRIC_MEMORY_READ" -> "DeviceCapability::METRIC_MEMORY_THROUGHPUT_BANDWIDTH"
      [] measurementType = "METRIC_MEMORY_WRITE" -> "DeviceCapability::METRIC_MEMORY_THROUGHPUT_BANDWIDTH"
      [] measurementType = "METRIC_MEMORY_READ_THROUGHPUT" -> "DeviceCapability::METRIC_MEMORY_THROUGHPUT_BANDWIDTH"
      [] measurementType = "METRIC_MEMORY_WRITE_THROUGHPUT" -> "DeviceCapability::METRIC_MEMORY_THROUGHPUT_BANDWIDTH"
      [] measurementType = "METRIC_COMPUTATION" -> "DeviceCapability::METRIC_COMPUTATION"
      [] measurementType = "METRIC_ENGINE_UTILIZATION" -> "DeviceCapability::METRIC_ENGINE_UTILIZATION"
      [] measurementType = "METRIC_ENERGY" -> "DeviceCapability::METRIC_ENERGY"
      [] measurementType = "METRIC_ENGINE_GROUP_COMPUTE_ALL_UTILIZATION" -> "DeviceCapability::METRIC_ENGINE_GROUP_COMPUTE_ALL_UTILIZATION"
      [] measurementType = "METRIC_ENGINE_GROUP_MEDIA_ALL_UTILIZATION" -> "DeviceCapability::METRIC_ENGINE_GROUP_MEDIA_ALL_UTILIZATION"
      [] measurementType = "METRIC_ENGINE_GROUP_COPY_ALL_UTILIZATION" -> "DeviceCapability::METRIC_ENGINE_GROUP_COPY_ALL_UTILIZATION"
      [] measurementType = "METRIC_ENGINE_GROUP_RENDER_ALL_UTILIZATION" -> "DeviceCapability::METRIC_ENGINE_GROUP_RENDER_ALL_UTILIZATION"
      [] measurementType = "METRIC_ENGINE_GROUP_3D_ALL_UTILIZATION" -> "DeviceCapability::METRIC_ENGINE_GROUP_3D_ALL_UTILIZATION"
      [] measurementType = "METRIC_EU_ACTIVE" -> "DeviceCapability::METRIC_EU_ACTIVE_STALL_IDLE"
      [] measurementType = "METRIC_EU_STALL" -> "DeviceCapability::METRIC_EU_ACTIVE_STALL_IDLE"
      [] measurementType = "METRIC_EU_IDLE" -> "DeviceCapability::METRIC_EU_ACTIVE_STALL_IDLE"
      [] measurementType = "METRIC_RAS_ERROR_CAT_RESET" -> "DeviceCapability::METRIC_RAS_ERROR"
      [] measurementType = "METRIC_RAS_ERROR_CAT_PROGRAMMING_ERRORS" -> "DeviceCapability::METRIC_RAS_ERROR"
      [] measurementType = "METRIC_RAS_ERROR_CAT_DRIVER_ERRORS" -> "DeviceCapability::METRIC_RAS_ERROR"
      [] measurementType = "METRIC_RAS_ERROR_CAT_CACHE_ERRORS_CORRECTABLE" -> "DeviceCapability::METRIC_RAS_ERROR"
      [] measurementType = "METRIC_RAS_ERROR_CAT_CACHE_ERRORS_UNCORRECTABLE" -> "DeviceCapability::METRIC_RAS_ERROR"
      [] measurementType = "METRIC_RAS_ERROR_CAT_DISPLAY_ERRORS_CORRECTABLE" -> "DeviceCapability::METRIC_RAS_ERROR"
      [] measurementType = "METRIC_RAS_ERROR_CAT_DISPLAY_ERRORS_UNCORRECTABLE" -> "DeviceCapability::METRIC_RAS_ERROR"
      [] measurementType = "METRIC_RAS_ERROR_CAT_NON_COMPUTE_ERRORS_CORRECTABLE" -> "DeviceCapability::METRIC_RAS_ERROR"
      [] measurementType = "METRIC_RAS_ERROR_CAT_NON_COMPUTE_ERRORS_UNCORRECTABLE" -> "DeviceCapability::METRIC_RAS_ERROR"
      [] measurementType = "METRIC_MEMORY_TEMPERATURE" -> "DeviceCapability::METRIC_MEMORY_TEMPERATURE"
      [] measurementType = "METRIC_FREQUENCY_THROTTLE" -> "DeviceCapability::METRIC_FREQUENCY_THROTTLE"
      [] measurementType = "METRIC_FREQUENCY_THROTTLE_REASON_GPU" -> "DeviceCapability::METRIC_FREQUENCY_THROTTLE_REASON_GPU"
      [] measurementType = "METRIC_PCIE_READ_THROUGHPUT" -> "DeviceCapability::METRIC_PCIE_READ_THROUGHPUT"
      [] measurementType = "METRIC_PCIE_WRITE_THROUGHPUT" -> "DeviceCapability::METRIC_PCIE_WRITE_THROUGHPUT"
      [] measurementType = "METRIC_PCIE_READ" -> "DeviceCapability::METRIC_PCIE_READ"
      [] measurementType = "METRIC_PCIE_WRITE" -> "DeviceCapability::METRIC_PCIE_WRITE"
      [] measurementType = "METRIC_FABRIC_THROUGHPUT" -> "DeviceCapability::METRIC_FABRIC_THROUGHPUT"
      [] measurementType = "METRIC_PERF" -> "DeviceCapability::METRIC_PERF"
      [] OTHER -> "DeviceCapability::DEVICE_CAPABILITY_MAX"

\* a table that knows no stats type
measurementTypeFromXpumStatsType_Default(xpum_stats_type) == "METRIC_MAX"

\* Utility::measurementTypeFromXpumStatsType
measurementTypeFromXpumStatsType(xpum_stats_type) ==
    CASE xpum_stats_type = "XPUM_STATS_GPU_CORE_TEMPERATURE" -> "METRIC_TEMPERATURE"
      [] xpum_stats_type = "XPUM_STATS_GPU_FREQUENCY" -> "METRIC_FREQUENCY"
      [] xpum_stats_type = "XPUM_STATS_POWER" -> "METRIC_POWER"
      [] xpum_stats_type = "XPUM_STATS_MEMORY_USED" -> "METRIC_MEMORY_USED"
      [] xpum_stats_type = "XPUM_STATS_MEMORY_UTILIZATION" -> "METRIC_MEMORY_UTILIZATION"
      [] xpum_stats_type = "XPUM_STATS_MEMORY_BANDWIDTH" -> "METRIC_MEMORY_BANDWIDTH"
      [] xpum_stats_type = "XPUM_STATS_MEMORY_READ" -> "METRIC_MEMORY_READ"
      [] xpum_stats_type = "XPUM_STATS_MEMORY_WRITE" -> "METRIC_MEMORY_WRITE"
      [] xpum_stats_type = "XPUM_STATS_MEMORY_READ_THROUGHPUT" -> "METRIC_MEMORY_READ_THROUGHPUT"
      [] xpum_stats_type = "XPUM_STATS_MEMORY_WRITE_THROUGHPUT" -> "METRIC_MEMORY_WRITE_THROUGHPUT"
      [] xpum_stats_type = "XPUM_STATS_GPU_UTILIZATION" -> "METRIC_COMPUTATION"
      [] xpum_stats_type = "XPUM_STATS_ENGINE_UTILIZATION" -> "METRIC_ENGINE_UTILIZATION"
      [] xpum_stats_type = "XPUM_STATS_ENGINE_GROUP_COMPUTE_ALL_UTILIZATION" -> "METRIC_ENGINE_GROUP_COMPUTE_ALL_UTILIZATION"
      [] xpum_stats_type = "XPUM_STATS_ENGINE_GROUP_MEDIA_ALL_UTILIZATION" -> "METRIC_ENGINE_GROUP_MEDIA_ALL_UTILIZATION"
      [] xpum_stats_type = "XPUM_STATS_ENGINE_GROUP_COPY_ALL_UTILIZATION" -> "METRIC_ENGINE_GROUP_COPY_ALL_UTILIZATION"
      [] xpum_stats_type = "XPUM_STATS_ENGINE_GROUP_RENDER_ALL_UTILIZATION" -> "METRIC_ENGINE_GROUP_RENDER_ALL_UTILIZATION"
      [] xpum_stats_type = "XPUM_STATS_ENGINE_GROUP_3D_ALL_UTILIZATION" -> "METRIC_ENGINE_GROUP_3D_ALL_UTILIZATION"
      [] xpum_stats_type = "XPUM_STATS_ENERGY" -> "METRIC_ENERGY"
      [] xpum_stats_type = "XPUM_STATS_EU_ACTIVE" -> "METRIC_EU_ACTIVE"
      [] xpum_stats_type = "XPUM_STATS_EU_STALL" -> "METRIC_EU_STALL"
      [] xpum_stats_type = "XPUM_STATS_EU_IDLE" -> "METRIC_EU_IDLE"
      [] xpum_stats_type = "XPUM_STATS_RAS_ERROR_CAT_RESET" -> "METRIC_RAS_ERROR_CAT_RESET"
      [] xpum_stats_type = "XPUM_STATS_RAS_ERROR_CAT_PROGRAMMING_ERRORS" -> "METRIC_RAS_ERROR_CAT_PROGRAMMING_ERRORS"
      [] xpum_stats_type = "XPUM_STATS_RAS_ERROR_CAT_DRIVER_ERRORS" -> "METRIC_RAS_ERROR_CAT_DRIVER_ERRORS"
      [] xpum_stats_type = "XPUM_STATS_RAS_ERROR_CAT_CACHE_ERRORS_CORRECTABLE" -> "METRIC_RAS_ERROR_CAT_CACHE_ERRORS_CORRECTABLE"
      [] xpum_stats_type = "XPUM_STATS_RAS_ERROR_CAT_CACHE_ERRORS_UNCORRECTABLE" -> "METRIC_RAS_ERROR_CAT_CACHE_ERRORS_UNCORRECTABLE"
      [] xpum_stats_type = "XPUM_STATS_RAS_ERROR_CAT_DISPLAY_ERRORS_CORRECTABLE" -> "METRIC_RAS_ERROR_CAT_DISPLAY_ERRORS_CORRECTABLE"
      [] xpum_stats_type = "XPUM_STATS_RAS_ERROR_CAT_DISPLAY_ERRORS_UNCORRECTABLE" -> "METRIC_RAS_ERROR_CAT_DISPLAY_ERRORS_UNCORRECTABLE"
      [] xpum_stats_type = "XPUM_STATS_RAS_ERROR_CAT_NON_COMPUTE_ERRORS_CORRECTABLE" -> "METRIC_RAS_ERROR_CAT_NON_COMPUTE_ERRORS_CORRECTABLE"
      [] xpum_stats_type = "XPUM_STATS_RAS_ERROR_CAT_NON_COMPUTE_ERRORS_UNCORRECTABLE" -> "METRIC_RAS_ERROR_CAT_NON_COMPUTE_ERRORS_UNCORRECTABLE"
      [] xpum_stats_type = "XPUM_STATS_GPU_REQUEST_FREQUENCY" -> "METRIC_REQUEST_FREQUENCY"
      [] xpum_stats_type = "XPUM_STATS_MEMORY_TEMPERATURE" -> "METRIC_MEMORY_TEMPERATURE"
      [] xpum_stats_type = "XPUM_STATS_FREQUENCY_THROTTLE" -> "METRIC_FREQUENCY_THROTTLE"
      [] xpum_stats_type = "XPUM_STATS_FREQUENCY_THROTTLE_REASON_GPU" -> "METRIC_FREQUENCY_THROTTLE_REASON_GPU"
      [] xpum_stats_type = "XPUM_STATS_PCIE_READ_THROUGHPUT" -> "METRIC_PCIE_READ_THROUGHPUT"
      [] xpum_stats_type = "XPUM_STATS_PCIE_WRITE_THROUGHPUT" -> "METRIC_PCIE_WRITE_THROUGHPUT"
      [] xpum_stats_type = "XPUM_STATS_PCIE_READ" -> "METRIC_PCIE_READ"
      [] xpum_stats_type = "XPUM_STATS_PCIE_WRITE" -> "METRIC_PCIE_WRITE"
      [] xpum_stats_type = "XPUM_STATS_FABRIC_THROUGHPUT" -> "METRIC_FABRIC_THROUGHPUT"
      [] xpum_stats_type = "XPUM_STATS_MEDIA_ENGINE_FREQUENCY" -> "METRIC_MEDIA_ENGINE_FREQUENCY"
      [] OTHER -> "METRIC_MAX"

\* Utility::xpumStatsTypeFromMeasurementType
xpumStatsTypeFromMeasurementType(measurementType) ==
    CASE measurementType = "METRIC_TEMPERATURE" -> "XPUM_STATS_GPU_CORE_TEMPERATURE"
      [] measurementType = "METRIC_FREQUENCY" -> "XPUM_STATS_GPU_FREQUENCY"
      [] measurementType = "METRIC_POWER" -> "XPUM_STATS_POWER"
      [] measurementType = "METRIC_MEMORY_USED" -> "XPUM_STATS_MEMORY_USED"
      [] measurementType = "METRIC_MEMORY_UTILIZATION" -> "XPUM_STATS_MEMORY_UTILIZATION"
      [] measurementType = "METRIC_MEMORY_BANDWIDTH" -> "XPUM_STATS_MEMORY_BANDWIDTH"
      [] measurementType = "METRIC_MEMORY_READ" -> "XPUM_STATS_MEMORY_READ"
      [] measurementType = "METRIC_MEMORY_WRITE" -> "XPUM_STATS_MEMORY_WRITE"
      [] measurementType = "METRIC_MEMORY_READ_THROUGHPUT" -> "XPUM_STATS_MEMORY_READ_THROUGHPUT"
      [] measurementType = "METRIC_MEMORY_WRITE_THROUGHPUT" -> "XPUM_STATS_MEMORY_WRITE_THROUGHPUT"
      [] measurementType = "METRIC_COMPUTATION" -> "XPUM_STATS_GPU_UTILIZATION"
      [] measurementType = "METRIC_ENGINE_UTILIZATION" -> "XPUM_STATS_ENGINE_UTILIZATION"
      [] measurementType = "METRIC_ENGINE_GROUP_COMPUTE_ALL_UTILIZATION" -> "XPUM_STATS_ENGINE_GROUP_COMPUTE_ALL_UTILIZATION"
      [] measurementType = "METRIC_ENGINE_GROUP_MEDIA_ALL_UTILIZATION" -> "XPUM_STATS_ENGINE_GROUP_MEDIA_ALL_UTILIZATION"
      [] measurementType = "METRIC_ENGINE_GROUP_COPY_ALL_UTILIZATION" -> "XPUM_STATS_ENGINE_GROUP_COPY_ALL_UTILIZATION"
      [] measurementType = "METRIC_ENGINE_GROUP_RENDER_ALL_UTILIZATION" -> "XPUM_STATS_ENGINE_GROUP_RENDER_ALL_UTILIZATION"
      [] measurementType = "METRIC_ENGINE_GROUP_3D_ALL_UTILIZATION" -> "XPUM_STATS_ENGINE_GROUP_3D_ALL_UTILIZATION"
      [] measurementType = "METRIC_ENERGY" -> "XPUM_STATS_ENERGY"
      [] measurementType = "METRIC_EU_ACTIVE" -> "XPUM_STATS_EU_ACTIVE"
      [] measurementType = "METRIC_EU_STALL" -> "XPUM_STATS_EU_STALL"
      [] measurementType = "METRIC_EU_IDLE" -> "XPUM_STATS_EU_IDLE"
      [] measurementType = "METRIC_RAS_ERROR_CAT_RESET" -> "XPUM_STATS_RAS_ERROR_CAT_RESET"
      [] measurementType = "METRIC_RAS_ERROR_CAT_PROGRAMMING_ERRORS" -> "XPUM_STATS_RAS_ERROR_CAT_PROGRAMMING_ERRORS"
      [] measurementType = "METRIC_RAS_ERROR_CAT_DRIVER_ERRORS" -> "XPUM_STATS_RAS_ERROR_CAT_DRIVER_ERRORS"
      [] measurementType = "METRIC_RAS_ERROR_CAT_CACHE_ERRORS_CORRECTABLE" -> "XPUM_STATS_RAS_ERROR_CAT_CACHE_ERRORS_CORRECTABLE"
      [] measurementType = "METRIC_RAS_ERROR_CAT_CACHE_ERRORS_UNCORRECTABLE" -> "XPUM_STATS_RAS_ERROR_CAT_CACHE_ERRORS_UNCORRECTABLE"
      [] measurementType = "METRIC_RAS_ERROR_CAT_DISPLAY_ERRORS_CORRECTABLE" -> "XPUM_STATS_RAS_ERROR_CAT_DISPLAY_ERRORS_CORRECTABLE"
      [] measurementType = "METRIC_RAS_ERROR_CAT_DISPLAY_ERRORS_UNCORRECTABLE" -> "XPUM_STATS_RAS_ERROR_CAT_DISPLAY_ERRORS_UNCORRECTABLE"
      [] measurementType = "METRIC_RAS_ERROR_CAT_NON_COMPUTE_ERRORS_CORRECTABLE" -> "XPUM_STATS_RAS_ERROR_CAT_NON_COMPUTE_ERRORS_CORRECTABLE"
      [] measurementType = "METRIC_RAS_ERROR_CAT_NON_COMPUTE_ERRORS_UNCORRECTABLE" -> "XPUM_STATS_RAS_ERROR_CAT_NON_COMPUTE_ERRORS_UNCORRECTABLE"
      [] measurementType = "METRIC_REQUEST_FREQUENCY" -> "XPUM_STATS_GPU_REQUEST_FREQUENCY"
      [] measurementType = "METRIC_MEMORY_TEMPERATURE" -> "XPUM_STATS_MEMORY_TEMPERATURE"
      [] measurementType = "METRIC_FREQUENCY_THROTTLE" -> "XPUM_STATS_FREQUENCY_THROTTLE"
      [] measurementType = "METRIC_FREQUENCY_THROTTLE_REASON_GPU" -> "XPUM_STATS_FREQUENCY_THROTTLE_REASON_GPU"
      [] measurementType = "METRIC_PCIE_READ_THROUGHPUT" -> "XPUM_STATS_PCIE_READ_THROUGHPUT"
      [] measurementType = "METRIC_PCIE_WRITE_THROUGHPUT" -> "XPUM_STATS_PCIE_WRITE_THROUGHPUT"
      [] measurementType = "METRIC_PCIE_READ" -> "XPUM_STATS_PCIE_READ"
      [] measurementType = "METRIC_PCIE_WRITE" -> "XPUM_STATS_PCIE_WRITE"
      [] measurementType = "METRIC_FABRIC_THROUGHPUT" -> "XPUM_STATS_FABRIC_THROUGHPUT"
      [] measurementType = "METRIC_MEDIA_ENGINE_FREQUENCY" -> "XPUM_STATS_MEDIA_ENGINE_FREQUENCY"
      [] OTHER -> "XPUM_STATS_MAX"

\* Utility::isCounterMetric
isCounterMetric(type) ==
    type \in {"METRIC_ENERGY",
              "METRIC_MEMORY_READ",
              "METRIC_MEMORY_WRITE",
              "METRIC_RAS_ERROR_CAT_RESET",
              "METRIC_RAS_ERROR_CAT_PROGRAMMING_ERRORS",
              "METRIC_RAS_ERROR_CAT_DRIVER_ERRORS",
              "METRIC_RAS_ERROR_CAT_CACHE_ERRORS_CORRECTABLE",
              "METRIC_RAS_ERROR_CAT_CACHE_ERRORS_UNCORRECTABLE",
              "METRIC_RAS_ERROR_CAT_DISPLAY_ERRORS_CORRECTABLE",
              "METRIC_RAS_ERROR_CAT_DISPLAY_ERRORS_UNCORRECTABLE",
              "METRIC_RAS_ERROR_CAT_NON_COMPUTE_ERRORS_CORRECTABLE",
              "METRIC_RAS_ERROR_CAT_NON_COMPUTE_ERRORS_UNCORRECTABLE",
              "METRIC_PCIE_READ",
              "METRIC_PCIE_WRITE"}

\* Utility::getMetricsTypes: the metric types, in the order they are listed
getMetricsTypes ==
    <<"METRIC_FREQUENCY",
      "METRIC_POWER",
      "METRIC_ENERGY",
      "METRIC_TEMPERATURE",
      "METRIC_MEMORY_USED",
      "METRIC_MEMORY_UTILIZATION",
      "METRIC_MEMORY_BANDWIDTH",
      "METRIC_MEMORY_READ",
      "METRIC_MEMORY_WRITE",
      "METRIC_MEMORY_READ_THROUGHPUT",
      "METRIC_MEMORY_WRITE_THROUGHPUT",
      "METRIC_COMPUTATION",
      "METRIC_ENGINE_UTILIZATION",
      "METRIC_ENGINE_GROUP_COMPUTE_ALL_UTILIZATION",
      "METRIC_ENGINE_GROUP_MEDIA_ALL_UTILIZATION",
      "METRIC_ENGINE_GROUP_COPY_ALL_UTILIZATION",
      "METRIC_ENGINE_GROUP_RENDER_ALL_UTILIZATION",
      "METRIC_ENGINE_GROUP_3D_ALL_UTILIZATION",
      "METRIC_EU_ACTIVE",
      "METRIC_EU_STALL",
      "METRIC_EU_IDLE",
      "METRIC_RAS_ERROR_CAT_RESET",
      "METRIC_RAS_ERROR_CAT_PROGRAMMING_ERRORS",
      "METRIC_RAS_ERROR_CAT_DRIVER_ERRORS",
      "METRIC_RAS_ERROR_CAT_CACHE_ERRORS_CORRECTABLE",
      "METRIC_RAS_ERROR_CAT_CACHE_ERRORS_UNCORRECTABLE",
      "METRIC_RAS_ERROR_CAT_DISPLAY_ERRORS_CORRECTABLE",
      "METRIC_RAS_ERROR_CAT_DISPLAY_ERRORS_UNCORRECTABLE",
      "METRIC_RAS_ERROR_CAT_NON_COMPUTE_ERRORS_CORRECTABLE",
      "METRIC_RAS_ERROR_CAT_NON_COMPUTE_ERRORS_UNCORRECTABLE",
      "METRIC_REQUEST_FREQUENCY",
      "METRIC_MEMORY_TEMPERATURE",
      "METRIC_FREQUENCY_THROTTLE",
      "METRIC_FREQUENCY_THROTTLE_REASON_GPU",
      "METRIC_PCIE_READ_THROUGHPUT",
      "METRIC_PCIE_WRITE_THROUGHPUT",
      "METRIC_PCIE_READ",
      "METRIC_PCIE_WRITE",
      "METRIC_FABRIC_THROUGHPUT",
      "METRIC_MEDIA_ENGINE_FREQUENCY">>

(***************************************************************************)
(* The rate handler: state of one TimeWeightedAverageDataHandler.           *)
(*   A SharedData sample is a function from the device ids it carries to    *)
(*   MeasurementData records.                                               *)
(***************************************************************************)
\* device ids of the handler chain, in std::map<std::string,...> order
DeviceOrder == <<"0", "1">>
RateDevices == {DeviceOrder[i] : i \in 1..Len(DeviceOrder)}
SubIds == 0..(MaxSubdevice - 1)

\* raw counter values and raw timestamps the producer supplies
RawVals == {1, 4, UINT64_MAX}
RawTimes == {1, 3}
\* the derived value a sample carries when it arrives
ArrivedCurrent == {9}

VARIABLES
    p_preData,      \* DataHandler::p_preData: the baseline snapshot, or NULL
    p_latestData,   \* DataHandler::p_latestData: the sample in flight / latest
    pc,             \* where the producer stands in handleData
    h_pre,          \* history: p_preData as handleData found it
    h_arrived,      \* history: the sample as it arrived
    multi_sessions_data, \* StatsDataHandler::multi_sessions_data: the windows
    stats_clock,    \* the timestamp the next sample carries
    stats_result,   \* the last getLatestStatistics call and what it returned
    h_folded,       \* history: per session and device, the samples folded
                    \* into the window since it was opened
    initialized,    \* DataLogic::p_data_handler_manager != nullptr
    num_subdevice,  \* the device's XPUM_DEVICE_PROPERTY_INTERNAL_NUMBER_OF_SUBDEVICE
    capabilities,   \* the device's capability set (Device::getCapability)
    enabledMetrics, \* Configuration::getEnabledMetrics()
    engine_handles, \* the device's engine handles, in logical index order
    fabric_infos,   \* the device's fabric throughput infos, by fabric id
    fabric_devices, \* the remote fabric ids getDeviceIDByFabricID resolves
    latestData,     \* per metric type: what getLatestData returns for the device
    statsData,      \* per session and metric type: what getLatestStatistics returns
    stats_timestamps, \* per metric family and session: the recorded stats timestamp
    last,           \* the last operation on DataLogic and what it returned
    r_pc,           \* where a getMetricsStatistics call stands in its fetch loop
    r_session,      \* the session_id of that call
    r_types,        \* metric_types from metric_types_iter on
    r_datas,        \* m_datas so far
    r_now,          \* the system clock, in seconds since the call began
    r_start,        \* start_time of the retry loop
    r_end,          \* end_time of the retry loop
    r_result,       \* what the call returned: result, count, rows and begin
    r_done,         \* history: per metric type of the call, how its fetch ended
    d_config,       \* DumpRawDataTask: tileId and dumpTypeList of the task
    d_columnList,   \* DumpRawDataTask::columnList
    d_rawDataMap,   \* DumpRawDataTask::rawDataMap
    d_file,         \* the dump file: its header line and its last data row
    h_printed,      \* history: per column, the timestamp whose value it last printed
    b_frame,        \* the locals of a Utility::parallel_in_batches call
    b_calls,        \* the functor invocations of that call, in launch order
    u_calls         \* the last two calls of Utility's type tables

statsVars == <<multi_sessions_data, stats_clock, stats_result, h_folded>>
rateVars == <<p_preData, p_latestData, pc, h_pre, h_arrived, statsVars>>
topologyVars == <<num_subdevice, capabilities, enabledMetrics, engine_handles,
                  fabric_infos, fabric_devices>>
pipelineVars == <<latestData, statsData, stats_timestamps>>
queryVars == <<initialized, topologyVars, pipelineVars, last>>
retryVars == <<r_pc, r_session, r_types, r_datas, r_now, r_start, r_end,
               r_result, r_done>>
dumpVars == <<d_config, d_columnList, d_rawDataMap, d_file, h_printed>>
batchVars == <<b_frame, b_calls>>
tableVars == <<u_calls>>
taskVars == <<dumpVars, batchVars, tableVars>>
vars == <<rateVars, queryVars, retryVars, taskVars>>

\* MeasurementData of one device: the device-level raw entry (raw = UINT64_MAX
\* with has_raw_data_on_device FALSE when the device carries none), the
\* per-sub-device raw entries (subdevice_rawdatas) and derived values
\* (subdevice_datas)
MeasurementDataOf(hasRaw, r, t, c, sr) ==
    [has_raw_data_on_device |-> hasRaw,
     raw_data |-> r,
     raw_timestamp |-> IF hasRaw THEN t ELSE 0,
     current |-> c,
     subdevice_rawdatas |-> sr,
     subdevice_datas |-> [s \in DOMAIN sr |-> c]]

SubdeviceRawDatas(S, vals, t) ==
    {[s \in S |-> [raw_data |-> f[s], raw_timestamp |-> t]] : f \in [S -> vals]}

NoSubdevices == [s \in {} |-> [raw_data |-> 0, raw_timestamp |-> 0]]

\* counters that are neither absent nor the sentinel
CounterVals == RawVals \ {UINT64_MAX}

\* samples of the tiles of device "0" alone
TileSamples(t, c) ==
    {[dev \in {"0"} |-> MeasurementDataOf(FALSE, UINT64_MAX, t, c, sr)] :
        sr \in UNION {SubdeviceRawDatas(S, RawVals, t) : S \in SUBSET SubIds}}

\* the device-level entry of device "1", when the sample carries that device
WithDevice1(m0, t, c) ==
    {[dev \in {"0"} |-> m0]}
    \cup
    {[dev \in {"0", "1"} |->
        IF dev = "0" THEN m0 ELSE MeasurementDataOf(TRUE, r1, t, c, NoSubdevices)] :
        r1 \in CounterVals}

\* samples of device-level counters of devices "0" and "1"
DeviceSamples(t, c) ==
    UNION {WithDevice1(m0, t, c) :
        m0 \in {MeasurementDataOf(FALSE, UINT64_MAX, t, c, NoSubdevices)}
               \cup {MeasurementDataOf(TRUE, r, t, c, NoSubdevices) : r \in RawVals}}

\* samples that carry a device-level counter and every tile of device "0"
MixedSamples(t, c) ==
    UNION {WithDevice1(MeasurementDataOf(TRUE, r, t, c,
                          [s \in SubIds |-> [raw_data |-> rs, raw_timestamp |-> t]]), t, c) :
        r \in CounterVals, rs \in CounterVals}

\* the samples the producer may push
Samples ==
    UNION {TileSamples(t, c) \cup DeviceSamples(t, c) \cup MixedSamples(t, c) :
        t \in RawTimes, c \in ArrivedCurrent}

hasRawDataOnDevice(m) == m.has_raw_data_on_device
hasSubdeviceRawData(m) == DOMAIN m.subdevice_rawdatas # {}

(***************************************************************************)
(* counterOverflowDetection: returns the baseline it leaves behind.         *)
(***************************************************************************)
\* the sub-device loop of one device: preSub is the baseline's
\* subdevice_rawdatas, subs the sample's sub-device ids still to visit
RECURSIVE OverflowSubdeviceLoop(_, _, _)
OverflowSubdeviceLoop(preSub, curSub, subs) ==
    IF subs = <<>> \/ Head(subs) \notin DOMAIN preSub THEN preSub
    ELSE LET subDeviceId == Head(subs)
             pre_data == preSub[subDeviceId].raw_data
             cur_data == curSub[subDeviceId].raw_data
             cleared == IF pre_data # UINT64_MAX /\ cur_data # UINT64_MAX
                           /\ pre_data > cur_data
                        THEN Erase(preSub, subDeviceId)
                        ELSE preSub
         IN OverflowSubdeviceLoop(cleared, curSub, Tail(subs))

\* the device loop: pre is the baseline sample, devs the sample's devices
\* still to visit; a device-level decrease drops the whole baseline
RECURSIVE OverflowDeviceLoop(_, _, _)
OverflowDeviceLoop(pre, data, devs) ==
    IF devs = <<>> THEN Ptr(pre)
    ELSE
      LET deviceId == Head(devs)
          measurementData == data[deviceId]
          deviceOverflow ==
              /\ hasRawDataOnDevice(measurementData)
              /\ deviceId \in DOMAIN pre
              /\ hasRawDataOnDevice(pre[deviceId])
              /\ pre[deviceId].raw_data # UINT64_MAX
              /\ measurementData.raw_data # UINT64_MAX
              /\ pre[deviceId].raw_data > measurementData.raw_data
          subdeviceChecked ==
              /\ hasSubdeviceRawData(measurementData)
              /\ deviceId \in DOMAIN pre
              /\ hasSubdeviceRawData(pre[deviceId])
          pre2 == IF subdeviceChecked
                  THEN [pre EXCEPT ![deviceId].subdevice_rawdatas =
                          OverflowSubdeviceLoop(@, measurementData.subdevice_rawdatas,
                              Ascending(DOMAIN measurementData.subdevice_rawdatas))]
                  ELSE pre
      IN IF deviceOverflow THEN NULL
         ELSE OverflowDeviceLoop(pre2, data, Tail(devs))

\* a handler that drops the baseline of the decreased devices alone
counterOverflowDetection_DeviceOnly(pre, data) ==
    IF pre = NULL \/ data = NULL THEN pre
    ELSE LET kept ==
                 {d \in DOMAIN Deref(pre) :
                     ~ (/\ d \in DOMAIN Deref(data)
                        /\ hasRawDataOnDevice(Deref(data)[d])
                        /\ hasRawDataOnDevice(Deref(pre)[d])
                        /\ Deref(pre)[d].raw_data # UINT64_MAX
                        /\ Deref(data)[d].raw_data # UINT64_MAX
                        /\ Deref(pre)[d].raw_data > Deref(data)[d].raw_data)}
         IN Ptr([d \in kept |-> Deref(pre)[d]])

\* a handler that never detects a counter overflow
counterOverflowDetection_None(pre, data) == pre

SampleDevices(data) == SelectSeq(DeviceOrder, LAMBDA d : d \in DOMAIN data)

counterOverflowDetection(pre, data) ==
    IF pre = NULL \/ data = NULL THEN pre
    ELSE OverflowDeviceLoop(Deref(pre), Deref(data), SampleDevices(Deref(data)))

(***************************************************************************)
(* calculateData: returns the sample with the derived values it wrote.      *)
(***************************************************************************)
Rate(pre_data, pre_ts, cur_data, cur_ts) ==
    UDiv(USub(cur_data, pre_data), USub(cur_ts, pre_ts))

\* a bug that reports 0 for an empty interval instead of leaving the value
RateUpdate_ZeroOnEmptyInterval(old, pre_data, pre_ts, cur_data, cur_ts) ==
    IF pre_data # UINT64_MAX /\ cur_data # UINT64_MAX
    THEN IF USub(cur_ts, pre_ts) # 0
         THEN Rate(pre_data, pre_ts, cur_data, cur_ts)
         ELSE 0
    ELSE old

\* the guarded write of one entity: the derived value after the sentinel test
\* and the interval test, old being the value before
RateUpdate(old, pre_data, pre_ts, cur_data, cur_ts) ==
    IF pre_data # UINT64_MAX /\ cur_data # UINT64_MAX
    THEN IF USub(cur_ts, pre_ts) # 0
         THEN Rate(pre_data, pre_ts, cur_data, cur_ts)
         ELSE old
    ELSE old

RECURSIVE CalculateSubdeviceLoop(_, _, _, _)
CalculateSubdeviceLoop(preSub, curSub, subCur, subs) ==
    IF subs = <<>> \/ Head(subs) \notin DOMAIN preSub THEN subCur
    ELSE LET subDeviceId == Head(subs)
             pre_data == preSub[subDeviceId].raw_data
             pre_data_raw_timestamp == preSub[subDeviceId].raw_timestamp
             cur_data == curSub[subDeviceId].raw_data
             cur_data_raw_timestamp == curSub[subDeviceId].raw_timestamp
             written ==
                 [subCur EXCEPT ![subDeviceId] =
                     RateUpdate(@, pre_data, pre_data_raw_timestamp,
                                cur_data, cur_data_raw_timestamp)]
         IN CalculateSubdeviceLoop(preSub, curSub, written, Tail(subs))

CalculateDevice(pre, measurementData, deviceId) ==
    LET hasBaseline == deviceId \in DOMAIN pre
        deviceLevel ==
            /\ hasRawDataOnDevice(measurementData)
            /\ hasBaseline
            /\ hasRawDataOnDevice(pre[deviceId])
        m1 == IF deviceLevel
              THEN [measurementData EXCEPT !.current =
                      RateUpdate(@, pre[deviceId].raw_data, pre[deviceId].raw_timestamp,
                                 measurementData.raw_data, measurementData.raw_timestamp)]
              ELSE measurementData
        subdeviceLevel ==
            /\ hasSubdeviceRawData(measurementData)
            /\ hasBaseline
            /\ hasSubdeviceRawData(pre[deviceId])
    IN IF subdeviceLevel
       THEN [m1 EXCEPT !.subdevice_datas =
               CalculateSubdeviceLoop(pre[deviceId].subdevice_rawdatas,
                   measurementData.subdevice_rawdatas, @,
                   Ascending(DOMAIN measurementData.subdevice_rawdatas))]
       ELSE m1

\* a bug that reports 0 for a device whose baseline holds no device-level
\* counter instead of leaving the value
calculateData_ZeroWithoutBaseline(pre, data) ==
    IF pre = NULL \/ data = NULL THEN data
    ELSE Ptr([deviceId \in DOMAIN Deref(data) |->
                IF /\ deviceId \in DOMAIN Deref(pre)
                   /\ hasRawDataOnDevice(Deref(pre)[deviceId])
                THEN CalculateDevice(Deref(pre), Deref(data)[deviceId], deviceId)
                ELSE [CalculateDevice(Deref(pre), Deref(data)[deviceId], deviceId)
                         EXCEPT !.current = 0]])

calculateData(pre, data) ==
    IF pre = NULL \/ data = NULL THEN data
    ELSE Ptr([deviceId \in DOMAIN Deref(data) |->
                CalculateDevice(Deref(pre), Deref(data)[deviceId], deviceId)])

(***************************************************************************)
(* StatsDataHandler: the statistics windows, one per session and device    *)
(* (stats_data_handler.h).                                                  *)
(***************************************************************************)
hasDataOnDevice(m) == m.hasDataOnDevice
hasSubdeviceData(m) == DOMAIN m.subdevice_datas # {}

\* Statistics_subdevice_data(data): the window of one sub-device, opened
Statistics_subdevice_data(data) ==
    [count |-> 1, avg |-> data, min |-> data, max |-> data]

NoSubdeviceStatistics == [s \in {} |-> Statistics_subdevice_data(0)]

\* a device window anchored one tick after the sample that opens it
Statistics_data_LateStart(data, time) ==
    [count |-> 1, avg |-> data, min |-> data, max |-> data,
     start_time |-> time + 1, latest_time |-> time,
     hasDataOnDevice |-> TRUE,
     subdevice_datas |-> NoSubdeviceStatistics]

\* Statistics_data(data, time): the window a device-level sample opens
Statistics_data(data, time) ==
    [count |-> 1, avg |-> data, min |-> data, max |-> data,
     start_time |-> time, latest_time |-> time,
     hasDataOnDevice |-> TRUE,
     subdevice_datas |-> NoSubdeviceStatistics]

\* Statistics_data(subdevice_id, data, time): the window a sample opens that
\* carries sub-device data only
Statistics_data_subdevice(subdevice_id, data, time) ==
    [count |-> 0, avg |-> 0, min |-> 0, max |-> 0,
     start_time |-> time, latest_time |-> time,
     hasDataOnDevice |-> FALSE,
     subdevice_datas |-> (subdevice_id :> Statistics_subdevice_data(data))]

Min2(a, b) == IF a <= b THEN a ELSE b
Max2(a, b) == IF a >= b THEN a ELSE b

\* a fold that keeps the minimum of the value that opened the window
FoldValue_KeepMin(w, data) ==
    [w EXCEPT !.count = (@ + 1) % Modulus,
              !.max = Max2(@, data),
              !.avg = ((w.avg * w.count + data) % Modulus) \div (w.count + 1)]

\* the incremental fold of one value into count, avg, min and max; the
\* fields are uint64_t, so the running average is an integer
FoldValue(w, data) ==
    [w EXCEPT !.count = (@ + 1) % Modulus,
              !.min = Min2(@, data),
              !.max = Max2(@, data),
              !.avg = ((w.avg * w.count + data) % Modulus) \div (w.count + 1)]

\* the sub-device windows after a sample: each sub-device the sample carries
\* is folded into its own window, which the first value opens
FoldSubdevices(subs, datas) ==
    [s \in DOMAIN subs \cup DOMAIN datas |->
        IF s \notin DOMAIN datas THEN subs[s]
        ELSE IF s \in DOMAIN subs THEN FoldValue(subs[s], datas[s])
        ELSE Statistics_subdevice_data(datas[s])]

\* the window a sample of one device opens, NULL when it carries nothing
OpenWindow(m, time) ==
    IF hasDataOnDevice(m)
    THEN Ptr([Statistics_data(m.current, time) EXCEPT
                 !.subdevice_datas = FoldSubdevices(@, m.subdevice_datas)])
    ELSE IF ~ hasSubdeviceData(m) THEN NULL
    ELSE LET first == Head(Ascending(DOMAIN m.subdevice_datas))
         IN Ptr([Statistics_data_subdevice(first, m.subdevice_datas[first], time)
                    EXCEPT !.subdevice_datas =
                        FoldSubdevices(@, Erase(m.subdevice_datas, first))])

\* an open window after a sample of its device
FoldWindow(w, m, time) ==
    LET deviceLevel ==
            IF ~ hasDataOnDevice(m) THEN w
            ELSE IF w.hasDataOnDevice THEN FoldValue(w, m.current)
            ELSE [w EXCEPT !.count = 1, !.avg = m.current, !.min = m.current,
                           !.max = m.current, !.hasDataOnDevice = TRUE]
    IN [deviceLevel EXCEPT
           !.subdevice_datas = FoldSubdevices(@, m.subdevice_datas),
           !.latest_time = time]

\* the devices of a sample that open a window in a session's windows
Opening(windows, data, time) ==
    {d \in DOMAIN data \ DOMAIN windows : OpenWindow(data[d], time) # NULL}

\* StatsDataHandler::updateStatistics: every session folds the sample
updateStatistics(sessions_data, data, time) ==
    [session \in DOMAIN sessions_data |->
        LET windows == sessions_data[session]
        IN [d \in DOMAIN windows \cup Opening(windows, data, time) |->
               IF d \notin DOMAIN data THEN windows[d]
               ELSE IF d \in DOMAIN windows
                    THEN FoldWindow(windows[d], data[d], time)
                    ELSE Deref(OpenWindow(data[d], time))]]

\* a reset that drops the device's window in every session
resetStatistics_AllSessions(sessions_data, device_id, session_id) ==
    [s \in DOMAIN sessions_data |-> Erase(sessions_data[s], device_id)]

\* a reset that leaves the window in place
resetStatistics_Keep(sessions_data, device_id, session_id) == sessions_data

\* StatsDataHandler::resetStatistics: drops the window of one session and
\* device
resetStatistics(sessions_data, device_id, session_id) ==
    IF session_id \in DOMAIN sessions_data
    THEN [sessions_data EXCEPT ![session_id] = Erase(@, device_id)]
    ELSE sessions_data

\* StatsDataHandler::getLatestStatistics: a copy of the window, or NULL
getLatestStatistics(sessions_data, device_id, session_id) ==
    IF /\ session_id \in DOMAIN sessions_data
       /\ device_id \in DOMAIN sessions_data[session_id]
    THEN Ptr(sessions_data[session_id][device_id])
    ELSE NULL

\* history: the samples a session's window of a device has folded since it
\* was opened, each with its timestamp
Folded(folded, data, time) ==
    [session \in DOMAIN folded |->
        [d \in DOMAIN folded[session] |->
            IF d \in DOMAIN data /\ OpenWindow(data[d], time) # NULL
            THEN Append(folded[session][d], [data |-> data[d], time |-> time])
            ELSE folded[session][d]]]

(***************************************************************************)
(* The producer: storeMeasurementData pushes a sample through               *)
(* preHandleData and handleData; handleData runs its three locked steps.    *)
(***************************************************************************)
\* DataHandler::preHandleData: the latest sample becomes the baseline
preHandleData(sample) ==
    /\ p_preData' = p_latestData
    /\ p_latestData' = Ptr(sample)

\* storeMeasurementData up to handleData's entry test
StoreMeasurementData(sample) ==
    /\ pc = "idle"
    /\ preHandleData(sample)
    /\ h_pre' = p_latestData
    /\ h_arrived' = Ptr(sample)
    /\ pc' = IF p_latestData = NULL THEN "idle" ELSE "overflow"
    /\ UNCHANGED <<statsVars, queryVars, retryVars, taskVars>>

OverflowStep ==
    /\ pc = "overflow"
    /\ p_preData' = counterOverflowDetection(p_preData, p_latestData)
    /\ pc' = "calculate"
    /\ UNCHANGED <<p_latestData, h_pre, h_arrived>>
    /\ UNCHANGED <<statsVars, queryVars, retryVars, taskVars>>

CalculateStep ==
    /\ pc = "calculate"
    /\ p_latestData' = calculateData(p_preData, p_latestData)
    /\ pc' = "statistics"
    /\ UNCHANGED <<p_preData, h_pre, h_arrived>>
    /\ UNCHANGED <<statsVars, queryVars, retryVars, taskVars>>

\* the rate specification registers no statistics session and holds the
\* sample clock still: updateStatistics finds no window to open or fold
StatisticsStep ==
    /\ pc = "statistics"
    /\ pc' = "idle"
    /\ multi_sessions_data' =
          updateStatistics(multi_sessions_data, Deref(p_latestData), stats_clock)
    /\ h_folded' = Folded(h_folded, Deref(p_latestData), stats_clock)
    /\ UNCHANGED <<p_preData, p_latestData, h_pre, h_arrived>>
    /\ UNCHANGED <<stats_clock, stats_result, queryVars, retryVars, taskVars>>

\* no getMetricsStatistics call is in its fetch loop
RetryIdle ==
    /\ r_pc = "idle"
    /\ r_session = 0
    /\ r_types = <<>>
    /\ r_datas = <<>>
    /\ r_now = 0
    /\ r_start = 0
    /\ r_end = 0
    /\ r_result = NULL
    /\ r_done = <<>>

\* no dump task exists
DumpIdle ==
    /\ d_config = <<>>
    /\ d_columnList = <<>>
    /\ d_rawDataMap = <<>>
    /\ d_file = <<>>
    /\ h_printed = <<>>

\* no parallel_in_batches call is running
BatchIdle ==
    /\ b_frame = <<>>
    /\ b_calls = <<>>

\* no type table has been consulted
TableIdle == u_calls = <<>>

TaskIdle == DumpIdle /\ BatchIdle /\ TableIdle

\* DataLogic before init, on a device without capabilities
DataLogicIdle ==
    /\ initialized = FALSE
    /\ num_subdevice = 0
    /\ capabilities = {}
    /\ enabledMetrics = {}
    /\ engine_handles = <<>>
    /\ fabric_infos = <<>>
    /\ fabric_devices = {}
    /\ latestData = <<>>
    /\ statsData = <<>>
    /\ stats_timestamps = <<>>
    /\ last = <<>>

\* the rate handler after construction
RateInit ==
    /\ p_preData = NULL
    /\ p_latestData = NULL
    /\ pc = "idle"
    /\ h_pre = NULL
    /\ h_arrived = NULL
    /\ multi_sessions_data = <<>>
    /\ stats_clock = 1
    /\ stats_result = <<>>
    /\ h_folded = <<>>

\* the specification of the rate handler leaves DataLogic aside
Init ==
    /\ RateInit
    /\ RetryIdle
    /\ TaskIdle
    /\ initialized = FALSE
    /\ num_subdevice = 0
    /\ capabilities = {}
    /\ enabledMetrics = {}
    /\ engine_handles = <<>>
    /\ fabric_infos = <<>>
    /\ fabric_devices = {}
    /\ latestData = <<>>
    /\ statsData = <<>>
    /\ stats_timestamps = <<>>
    /\ last = <<>>

Next ==
    \/ \E sample \in Samples : StoreMeasurementData(sample)
    \/ OverflowStep
    \/ CalculateStep
    \/ StatisticsStep

Spec == Init /\ [][Next]_vars

(***************************************************************************)
(* DataLogic: the devices, the configuration and the pipeline answers the   *)
(* query assembly reads (data_logic.cpp).                                   *)
(***************************************************************************)
\* width of the modelled 32-bit unsigned integers (uint32_t in the source)
Bits32 == 3

\* the device ids a caller passes; getDevice finds only those of KnownDevices
DeviceIds == {0, 1}
KnownDevices == {0}
\* the session ids a caller passes
Sessions == {0, 1}
\* the session ids a statistics query takes are 64 bits wide: the ids above
\* and one id that differs from session 0 only above bit 31
WideSessions == Sessions \cup {2 ^ Bits32}
\* the values of *count a caller passes in
Capacities == 0 .. (MaxSubdevice + 1)
\* the (dataList, *count) pairs of a call: without a buffer, or with a
\* buffer of some capacity
BufferArgs == {<<FALSE, 0>>} \cup { <<TRUE, c>> : c \in Capacities }
\* the (deviceId, dataList, *count) triples of a call: every buffer for a
\* known device, one call with and one without a buffer for an unknown one
QueryArgs ==
    { <<d, a[1], a[2]>> : d \in KnownDevices, a \in BufferArgs }
    \cup { <<d, a[1], a[2]>> : d \in DeviceIds \ KnownDevices,
                               a \in {<<FALSE, 0>>, <<TRUE, 1>>} }
\* the values Utility::getCurrentTime() returns during a run
ClockVals == {3}
\* the metric families that keep a stats timestamp per session
Families == {"stats", "engine", "fabric"}

\* the metric types of the modelled configuration
PlainMetrics == {"METRIC_POWER", "METRIC_ENERGY"}
MultiEntityMetrics == {"METRIC_ENGINE_UTILIZATION", "METRIC_FABRIC_THROUGHPUT"}
QueryMetrics == PlainMetrics \cup MultiEntityMetrics
\* the sparse metric types of the modelled configuration
SparseMetrics == {"METRIC_EU_ACTIVE", "METRIC_RAS_ERROR_CAT_RESET"}
\* std::map<MeasurementType, ...> iterates in the order of the enumeration
MetricOrder ==
    SelectSeq(getMetricsTypes, LAMBDA t : t \in QueryMetrics \cup SparseMetrics)

\* the image of a sequence under f
SeqMap(f(_), s) == [i \in 1 .. Len(s) |-> f(s[i])]

\* a MeasurementData as the queries read it: getCurrent/getMin/getAvg/getMax,
\* getScale, getTimestamp and the per-sub-device values
StatisticsDataOf(onDevice, cur, mn, av, mx, sub) ==
    [hasDataOnDevice |-> onDevice, current |-> cur, min |-> mn, avg |-> av,
     max |-> mx, scale |-> 1, timestamp |-> 2, subdevice_datas |-> sub]
SubdeviceStatistics(cur, mn, av, mx) ==
    [current |-> cur, min |-> mn, avg |-> av, max |-> mx]
\* the samples the producer leaves: tiles only (the last tile carrying the
\* "no data" sentinel), and device-level with tile 0
PlainDatas ==
    { StatisticsDataOf(FALSE, 0, 0, 0, 0,
          [s \in SubIds |-> IF s = MaxSubdevice - 1
                            THEN SubdeviceStatistics(UINT64_MAX, 2, 3, UINT64_MAX)
                            ELSE SubdeviceStatistics(6, 2, 4, 6)]),
      StatisticsDataOf(TRUE, 5, 2, 3, 5,
          [s \in {0} |-> SubdeviceStatistics(6, 2, 4, 6)]) }
\* what GPUDeviceStub::loadPVCIdlePowers returns: with or without device data
IdlePowerData(onDevice) ==
    IF onDevice THEN StatisticsDataOf(TRUE, 1, 1, 1, 1, <<>>)
    ELSE StatisticsDataOf(FALSE, 0, 0, 0, 0, <<>>)

\* the session id as the uint32_t parameter of the timestamp functions sees it
SessionSlot(session_id) == session_id % (2 ^ Bits32)
SessionSlots == { SessionSlot(s) : s \in Sessions }

\* the outcome of a call: result code, *count on return, rows written, *begin
Outcome(res, cnt, rws, bgn) ==
    [result |-> res, count |-> cnt, rows |-> rws, begin |-> bgn]
\* the illegal state reported as a result code
Thrown_AsResultCode(cnt) == Outcome("XPUM_GENERIC_ERROR", cnt, <<>>, NULL)
\* throw IlegalStateException: the call returns nothing
Thrown(cnt) == Outcome("IlegalStateException", cnt, <<>>, NULL)

\* metric_types after the erase loop: the enabled metrics the device supports
FilterByCapability_None(metric_types) == metric_types
FilterByCapability(metric_types) ==
    { metric \in metric_types :
        capabilityFromMeasurementType(metric) \in capabilities }

\* the value written to *count by a call without a buffer
RequiredRows_NoDeviceRow(n) == n
RequiredRows(n) == n + 1

\* the capacity test before each write to dataList
BufferFull_OneEarly(index, count) == index + 1 >= count
BufferFull_OffByOne(index, count) == index > count
BufferFull(index, count) == index >= count

(***************************************************************************)
(* getMetricsStatistics                                                     *)
(***************************************************************************)
\* an entry that reports every metric as a gauge
StatsEntry_AlwaysGauge(type, scale, cur, mn, av, mx) ==
    [metricsType |-> xpumStatsTypeFromMeasurementType(type), scale |-> scale,
     isCounter |-> FALSE, accumulated |-> 0, value |-> cur,
     avg |-> av, min |-> mn, max |-> mx]

\* one entry of a row of getMetricsStatistics (xpum_device_stats_data_t{})
StatsEntry(type, scale, cur, mn, av, mx) ==
    IF isCounterMetric(type)
    THEN [metricsType |-> xpumStatsTypeFromMeasurementType(type), scale |-> scale,
          isCounter |-> TRUE, accumulated |-> cur, value |-> USub(cur, mn),
          avg |-> 0, min |-> 0, max |-> 0]
    ELSE [metricsType |-> xpumStatsTypeFromMeasurementType(type), scale |-> scale,
          isCounter |-> FALSE, accumulated |-> 0, value |-> cur,
          avg |-> av, min |-> mn, max |-> mx]

\* the sample the statistics query fetches for one metric type
FetchStatistics(type, session_id, idle) ==
    IF type = "METRIC_POWER" /\ idle THEN Ptr(IdlePowerData(idle))
    ELSE statsData[session_id][type]

\* m_datas of getMetricsStatistics: the fetched samples, by metric type
StatisticsDatas(session_id, idle) ==
    LET metric_types == FilterByCapability(enabledMetrics)
        fetched == { t \in metric_types :
                       /\ t \notin MultiEntityMetrics
                       /\ FetchStatistics(t, session_id, idle) # NULL }
    IN [t \in fetched |-> Deref(FetchStatistics(t, session_id, idle))]

\* the types of m_datas in iteration order that pass a test
DatasWhere(m_datas, Test(_)) ==
    SelectSeq(MetricOrder, LAMBDA t : t \in DOMAIN m_datas /\ Test(m_datas[t]))

\* a tile test that lets the "no data" sentinel through
TileHasEntry_IgnoreSentinel(m, i) ==
    /\ hasSubdeviceData(m)
    /\ i \in DOMAIN m.subdevice_datas

\* whether the tile row of sub-device i carries an entry of this sample
TileHasEntry(m, i) ==
    /\ hasSubdeviceData(m)
    /\ i \in DOMAIN m.subdevice_datas
    /\ m.subdevice_datas[i].current # UINT64_MAX

DeviceStatsRow(m_datas) ==
    LET Entry(t) == StatsEntry(t, m_datas[t].scale, m_datas[t].current,
                               m_datas[t].min, m_datas[t].avg, m_datas[t].max)
    IN [isTileData |-> FALSE, tileId |-> 0,
        dataList |-> SeqMap(Entry, DatasWhere(m_datas, hasDataOnDevice))]

TileStatsRow(m_datas, i) ==
    LET Entry(t) == LET sub == m_datas[t].subdevice_datas[i]
                    IN StatsEntry(t, m_datas[t].scale, sub.current,
                                  sub.min, sub.avg, sub.max)
    IN [isTileData |-> TRUE, tileId |-> i,
        dataList |-> SeqMap(Entry,
                        DatasWhere(m_datas, LAMBDA m : TileHasEntry(m, i)))]

\* a loop that leaves out the tile rows without entries
RECURSIVE WriteStatsTileRows_SkipEmpty(_, _, _, _, _)
WriteStatsTileRows_SkipEmpty(m_datas, i, written, count, begin) ==
    IF i >= num_subdevice
    THEN Outcome("XPUM_OK", Len(written), written, begin)
    ELSE IF BufferFull(Len(written), count)
    THEN Outcome("XPUM_BUFFER_TOO_SMALL", count, written, begin)
    ELSE WriteStatsTileRows_SkipEmpty(m_datas, i + 1,
             IF TileStatsRow(m_datas, i).dataList = <<>> THEN written
             ELSE Append(written, TileStatsRow(m_datas, i)), count, begin)

\* the loop over the sub-devices: i is the tile, written the rows so far
RECURSIVE WriteStatsTileRows(_, _, _, _, _)
WriteStatsTileRows(m_datas, i, written, count, begin) ==
    IF i >= num_subdevice
    THEN Outcome("XPUM_OK", Len(written), written, begin)
    ELSE IF BufferFull(Len(written), count)
    THEN Outcome("XPUM_BUFFER_TOO_SMALL", count, written, begin)
    ELSE WriteStatsTileRows(m_datas, i + 1,
             Append(written, TileStatsRow(m_datas, i)), count, begin)

getMetricsStatistics(deviceId, dataList, count, session_id, idle) ==
    IF deviceId \notin KnownDevices
    THEN Outcome("XPUM_RESULT_DEVICE_NOT_FOUND", count, <<>>, NULL)
    ELSE IF ~dataList
    THEN Outcome("XPUM_OK", RequiredRows(num_subdevice), <<>>, NULL)
    ELSE IF ~initialized
    THEN Thrown(count)
    ELSE LET m_datas == StatisticsDatas(session_id, idle)
             begin == Ptr(stats_timestamps["stats"][SessionSlot(session_id)])
         IN IF BufferFull(0, count)
            THEN Outcome("XPUM_BUFFER_TOO_SMALL", count, <<>>, begin)
            ELSE WriteStatsTileRows(m_datas, 0, <<DeviceStatsRow(m_datas)>>,
                                    count, begin)

(***************************************************************************)
(* getLatestMetrics                                                         *)
(***************************************************************************)
\* one entry of a row of getLatestMetrics (xpum_device_metric_data_t)
MetricEntry(type, scale, cur, ts) ==
    [metricsType |-> xpumStatsTypeFromMeasurementType(type),
     isCounter |-> isCounterMetric(type), value |-> cur,
     timestamp |-> ts, scale |-> scale]

\* the sample the snapshot query fetches for one metric type: the condition
\* of the substitution ends in ", false", so the regular sample is fetched
FetchLatest(type, idle) ==
    IF FALSE THEN Ptr(IdlePowerData(idle))
    ELSE latestData[type]

\* m_datas of getLatestMetrics
LatestDatas(idle) ==
    LET metric_types == FilterByCapability(enabledMetrics)
        fetched == { t \in metric_types :
                       /\ t \notin MultiEntityMetrics
                       /\ FetchLatest(t, idle) # NULL }
    IN [t \in fetched |-> Deref(FetchLatest(t, idle))]

DeviceMetricsRow(m_datas) ==
    LET Entry(t) == MetricEntry(t, m_datas[t].scale, m_datas[t].current,
                                m_datas[t].timestamp)
    IN [isTileData |-> FALSE, tileId |-> 0,
        dataList |-> SeqMap(Entry, DatasWhere(m_datas, hasDataOnDevice))]

TileMetricsRow(m_datas, i) ==
    LET Entry(t) == MetricEntry(t, m_datas[t].scale,
                                m_datas[t].subdevice_datas[i].current,
                                m_datas[t].timestamp)
    IN [isTileData |-> TRUE, tileId |-> i,
        dataList |-> SeqMap(Entry,
                        DatasWhere(m_datas, LAMBDA m : TileHasEntry(m, i)))]

\* the loop over the sub-devices: every row is written, count is not read
RECURSIVE WriteMetricsTileRows(_, _, _)
WriteMetricsTileRows(m_datas, i, written) ==
    IF i >= num_subdevice THEN written
    ELSE WriteMetricsTileRows(m_datas, i + 1,
             Append(written, TileMetricsRow(m_datas, i)))

\* whether the snapshot query reaches a getLatestData call
FetchesLatest ==
    \E t \in FilterByCapability(enabledMetrics) : t \notin MultiEntityMetrics

getLatestMetrics(deviceId, dataList, count, idle) ==
    IF deviceId \notin KnownDevices
    THEN Outcome("void", count, <<>>, NULL)
    ELSE IF ~dataList
    THEN Outcome("void", RequiredRows(num_subdevice), <<>>, NULL)
    ELSE IF ~initialized /\ FetchesLatest
    THEN Thrown(RequiredRows(num_subdevice))
    ELSE LET m_datas == IF initialized THEN LatestDatas(idle) ELSE <<>>
         IN Outcome("void", RequiredRows(num_subdevice),
                    WriteMetricsTileRows(m_datas, 0, <<DeviceMetricsRow(m_datas)>>),
                    NULL)

(***************************************************************************)
(* The operations on DataLogic.  Each leaves in "last" what the caller      *)
(* passed and what it got back.                                             *)
(***************************************************************************)
CallOf(fn, deviceId, dataList, count, session_id, idle, sized, out) ==
    [fn |-> fn, deviceId |-> deviceId, hasBuffer |-> dataList,
     capacity |-> count, session_id |-> session_id, idle |-> idle,
     sized |-> sized, result |-> out.result, count |-> out.count,
     rows |-> out.rows, begin |-> out.begin]
NoCall ==
    CallOf("none", 0, FALSE, 0, 0, FALSE, FALSE, Outcome("void", 0, <<>>, NULL))

\* the call passes a buffer with the count the same query, just before and
\* without a buffer, answered for the same device and session
Sized(fn, deviceId, dataList, count, session_id) ==
    /\ dataList
    /\ last.fn = fn /\ last.deviceId = deviceId /\ last.session_id = session_id
    /\ ~last.hasBuffer
    /\ last.result \in {"XPUM_OK", "void"}
    /\ last.count = count

\* the pipeline of a fresh DataHandlerManager: no sample, no window
EmptyLatestData == [t \in QueryMetrics |-> NULL]
EmptyStatsData == [s \in WideSessions |-> [t \in QueryMetrics |-> NULL]]
EmptyStatsTimestamps == [f \in Families |-> [s \in SessionSlots |-> 0]]

DataLogic_init ==
    /\ initialized' = TRUE
    /\ latestData' = EmptyLatestData
    /\ statsData' = EmptyStatsData
    /\ stats_timestamps' = EmptyStatsTimestamps
    /\ last' = CallOf("init", 0, FALSE, 0, 0, FALSE, FALSE,
                      Outcome("void", 0, <<>>, NULL))
    /\ UNCHANGED <<rateVars, retryVars, taskVars, topologyVars>>

\* the producer stores a sample of one metric type: it becomes the latest
\* sample and is folded into the window of every session
storeMeasurementData(type, data) ==
    /\ IF initialized
       THEN /\ latestData' = [latestData EXCEPT ![type] = Ptr(data)]
            /\ statsData' = [s \in WideSessions |->
                                [statsData[s] EXCEPT ![type] = Ptr(data)]]
            /\ last' = CallOf("storeMeasurementData", 0, FALSE, 0, 0, FALSE,
                              FALSE, Outcome("void", 0, <<>>, NULL))
       ELSE /\ UNCHANGED <<latestData, statsData>>
            /\ last' = CallOf("storeMeasurementData", 0, FALSE, 0, 0, FALSE,
                              FALSE, Thrown(0))
    /\ UNCHANGED <<rateVars, retryVars, taskVars, initialized, topologyVars, stats_timestamps>>

\* update*StatsTimestamp of one family records the current time for a session
UpdateTimestamp(fn, family, session_id, now) ==
    /\ IF initialized
       THEN /\ stats_timestamps' =
                  [stats_timestamps EXCEPT ![family][SessionSlot(session_id)] = now]
            /\ last' = CallOf(fn, 0, FALSE, 0, session_id, FALSE, FALSE,
                              Outcome("void", 0, <<>>, NULL))
       ELSE /\ UNCHANGED stats_timestamps
            /\ last' = CallOf(fn, 0, FALSE, 0, session_id, FALSE, FALSE,
                              Thrown(0))
    /\ UNCHANGED <<rateVars, retryVars, taskVars, initialized, topologyVars, latestData, statsData>>

updateStatsTimestamp(session_id, now) ==
    UpdateTimestamp("updateStatsTimestamp", "stats", session_id, now)

\* a caller queries the statistics of the plain metrics
CallGetMetricsStatistics(deviceId, dataList, count, session_id, idle) ==
    /\ last' = CallOf("getMetricsStatistics", deviceId, dataList, count,
                      session_id, idle,
                      Sized("getMetricsStatistics", deviceId, dataList, count,
                            session_id),
                      getMetricsStatistics(deviceId, dataList, count,
                                           session_id, idle))
    /\ UNCHANGED <<rateVars, retryVars, taskVars, initialized, topologyVars, pipelineVars>>

\* a caller queries the snapshot of the plain metrics
CallGetLatestMetrics(deviceId, dataList, count, idle) ==
    /\ last' = CallOf("getLatestMetrics", deviceId, dataList, count, 0, idle,
                      Sized("getLatestMetrics", deviceId, dataList, count, 0),
                      getLatestMetrics(deviceId, dataList, count, idle))
    /\ UNCHANGED <<rateVars, retryVars, taskVars, initialized, topologyVars, pipelineVars>>

\* the capability sets and the configurations of the plain queries: engine
\* utilization is enabled and supported throughout, the plain metrics vary
CapabilitiesOf(types) == { capabilityFromMeasurementType(t) : t \in types }

QueryInit ==
    /\ RateInit
    /\ RetryIdle
    /\ TaskIdle
    /\ initialized = FALSE
    /\ num_subdevice \in 0 .. MaxSubdevice
    /\ \E S \in SUBSET PlainMetrics :
          capabilities = CapabilitiesOf(S \cup {"METRIC_ENGINE_UTILIZATION"})
    /\ \E S \in {PlainMetrics, {"METRIC_POWER"}, {}} :
          enabledMetrics = S \cup {"METRIC_ENGINE_UTILIZATION"}
    /\ engine_handles = <<>>
    /\ fabric_infos = <<>>
    /\ fabric_devices = {}
    /\ latestData = EmptyLatestData
    /\ statsData = EmptyStatsData
    /\ stats_timestamps = EmptyStatsTimestamps
    /\ last = NoCall

QueryNext ==
    \/ DataLogic_init
    \/ \E type \in PlainMetrics, data \in PlainDatas :
          storeMeasurementData(type, data)
    \/ \E session_id \in Sessions, now \in ClockVals :
          updateStatsTimestamp(session_id, now)
    \/ \E args \in QueryArgs, session_id \in Sessions, idle \in BOOLEAN :
          CallGetMetricsStatistics(args[1], args[2], args[3], session_id, idle)
    \/ \E args \in QueryArgs, idle \in BOOLEAN :
          CallGetLatestMetrics(args[1], args[2], args[3], idle)

SpecQuery == QueryInit /\ [][QueryNext]_vars

(***************************************************************************)
(* The multi-entity queries: engines and fabric links.                      *)
(***************************************************************************)
\* std::numeric_limits<uint32_t>::max(): getEngineIndex found no engine
UINT32_MAX == 2 ^ Bits32 - 1

\* Device::getEngineCount and Device::getEngineIndex over the engine handles
getEngineCount == Len(engine_handles)
getEngineIndex(engineHandle) ==
    IF \E i \in 1 .. Len(engine_handles) : engine_handles[i] = engineHandle
    THEN (CHOOSE i \in 1 .. Len(engine_handles) :
              engine_handles[i] = engineHandle) - 1
    ELSE UINT32_MAX

\* Device::getFabricThroughputInfoCount and Device::getFabricThroughputInfo
getFabricThroughputInfoCount == Cardinality(DOMAIN fabric_infos)
getFabricThroughputInfo(fabricId) == fabricId \in DOMAIN fabric_infos
\* a lookup that answers device 0 for an unknown fabric
getDeviceIDByFabricID_Default(fabric_id) ==
    IF fabric_id \in DOMAIN fabric_devices THEN Ptr(fabric_devices[fabric_id])
    ELSE Ptr(0)

\* DeviceManager::getDeviceIDByFabricID: the id is empty for an unknown fabric
getDeviceIDByFabricID(fabric_id) ==
    IF fabric_id \in DOMAIN fabric_devices THEN Ptr(fabric_devices[fabric_id])
    ELSE NULL

\* the two checks of the multi-entity queries on the metric type
MetricEnabled(type) == type \in enabledMetrics
MetricSupported(type) == type \in FilterByCapability(enabledMetrics)

\* one entity of a multi-entity sample, and the sample
EntityData(cur, mn, av, mx, onSub, sub) ==
    [current |-> cur, min |-> mn, avg |-> av, max |-> mx,
     on_subdevice |-> onSub, subdevice_id |-> sub]
MultiDataOf(entities, ts) ==
    [multi |-> entities, scale |-> 2, timestamp |-> ts]

\* the engine samples: handles 1 and 2 belong to the device, handle 3 does
\* not; the second sample carries the "no data" sentinel for handle 2
EngineDatas ==
    { MultiDataOf([h \in {1, 2, 3} |-> EntityData(5, 2, 3, 5, h = 2, 0)], 2),
      MultiDataOf([h \in {1, 2} |->
                     IF h = 2 THEN EntityData(UINT64_MAX, 2, 3, UINT64_MAX, TRUE, 0)
                     ELSE EntityData(5, 2, 3, 5, FALSE, 0)], 2) }
\* the fabric samples: ids 1 and 2 belong to the device, id 3 does not; the
\* samples differ in their timestamp
FabricDatas ==
    { MultiDataOf([f \in {1, 2, 3} |-> EntityData(5, 2, 3, 5, FALSE, 0)], ts) :
        ts \in {2, 4} }
MultiDatas(type) ==
    IF type = "METRIC_ENGINE_UTILIZATION" THEN EngineDatas ELSE FabricDatas

\* the topologies: no engine and no link; two engines and two links whose
\* remote fabrics resolve; the same with the remote fabric of link 2 unknown
FabricInfoOf(attach, remote_fabric, remote_attach, type) ==
    [attach_id |-> attach, remote_fabric_id |-> remote_fabric,
     remote_attach_id |-> remote_attach, type |-> type]
TwoLinks ==
    [f \in {1, 2} |-> IF f = 1 THEN FabricInfoOf(0, 7, 1, "TRANSMITTED_COUNTER")
                      ELSE FabricInfoOf(1, 8, 0, "RECEIVED")]
\* the same links with the other counter type and the other gauge type
TwoLinksReceived ==
    [f \in {1, 2} |-> IF f = 1 THEN FabricInfoOf(0, 7, 1, "RECEIVED_COUNTER")
                      ELSE FabricInfoOf(1, 8, 0, "TRANSMITTED")]
Topologies ==
    { [engines |-> <<>>, infos |-> <<>>, devices |-> <<>>],
      [engines |-> <<1, 2>>, infos |-> TwoLinks,
       devices |-> [r \in {7, 8} |-> 1]],
      [engines |-> <<1, 2>>, infos |-> TwoLinksReceived,
       devices |-> [r \in {7} |-> 1]] }

(***************************************************************************)
(* getEngineStatistics                                                      *)
(***************************************************************************)
EngineStatsRow(p_data, engineHandle) ==
    LET measurementData == p_data.multi[engineHandle]
    IN [isTileData |-> measurementData.on_subdevice,
        tileId |-> measurementData.subdevice_id,
        value |-> measurementData.current, min |-> measurementData.min,
        avg |-> measurementData.avg, max |-> measurementData.max,
        index |-> getEngineIndex(engineHandle), scale |-> p_data.scale]

\* the loop over the entities: handles are those still to visit
RECURSIVE EngineStatisticsLoop(_, _, _, _, _)
EngineStatisticsLoop(p_data, handles, written, count, begin) ==
    IF handles = <<>>
    THEN Outcome("XPUM_OK", Len(written), written, begin)
    ELSE IF /\ getEngineIndex(Head(handles)) # UINT32_MAX
            /\ p_data.multi[Head(handles)].current # UINT64_MAX
    THEN IF BufferFull(Len(written), count)
         THEN Outcome("XPUM_BUFFER_TOO_SMALL", count, written, begin)
         ELSE EngineStatisticsLoop(p_data, Tail(handles),
                  Append(written, EngineStatsRow(p_data, Head(handles))),
                  count, begin)
    ELSE EngineStatisticsLoop(p_data, Tail(handles), written, count, begin)

getEngineStatistics(deviceId, dataList, count, session_id) ==
    IF deviceId \notin KnownDevices
    THEN Outcome("XPUM_RESULT_DEVICE_NOT_FOUND", count, <<>>, NULL)
    ELSE IF ~dataList
    THEN Outcome("XPUM_OK", getEngineCount, <<>>, NULL)
    ELSE IF ~initialized
    THEN Thrown(count)
    ELSE LET begin == Ptr(stats_timestamps["engine"][SessionSlot(session_id)])
             p_data == statsData[session_id]["METRIC_ENGINE_UTILIZATION"]
         IN IF ~MetricEnabled("METRIC_ENGINE_UTILIZATION")
            THEN Outcome("XPUM_METRIC_NOT_ENABLED", 0, <<>>, begin)
            ELSE IF ~MetricSupported("METRIC_ENGINE_UTILIZATION")
            THEN Outcome("XPUM_METRIC_NOT_SUPPORTED", 0, <<>>, begin)
            ELSE IF p_data = NULL
            THEN Outcome("XPUM_OK", 0, <<>>, begin)
            ELSE EngineStatisticsLoop(Deref(p_data),
                     Ascending(DOMAIN Deref(p_data).multi), <<>>, count, begin)

(***************************************************************************)
(* getEngineUtilizations                                                    *)
(***************************************************************************)
EngineMetricRow(p_data, engineHandle) ==
    LET measurementData == p_data.multi[engineHandle]
    IN [isTileData |-> measurementData.on_subdevice,
        tileId |-> measurementData.subdevice_id,
        value |-> measurementData.current,
        index |-> getEngineIndex(engineHandle), scale |-> p_data.scale]

RECURSIVE EngineUtilizationsLoop(_, _, _, _)
EngineUtilizationsLoop(p_data, handles, written, count) ==
    IF handles = <<>>
    THEN Outcome("XPUM_OK", Len(written), written, NULL)
    ELSE IF getEngineIndex(Head(handles)) # UINT32_MAX
    THEN IF BufferFull(Len(written), count)
         THEN Outcome("XPUM_BUFFER_TOO_SMALL", count, written, NULL)
         ELSE EngineUtilizationsLoop(p_data, Tail(handles),
                  Append(written, EngineMetricRow(p_data, Head(handles))), count)
    ELSE EngineUtilizationsLoop(p_data, Tail(handles), written, count)

getEngineUtilizations(deviceId, dataList, count) ==
    IF deviceId \notin KnownDevices
    THEN Outcome("XPUM_RESULT_DEVICE_NOT_FOUND", 0, <<>>, NULL)
    ELSE IF ~MetricEnabled("METRIC_ENGINE_UTILIZATION")
    THEN Outcome("XPUM_METRIC_NOT_ENABLED", 0, <<>>, NULL)
    ELSE IF ~MetricSupported("METRIC_ENGINE_UTILIZATION")
    THEN Outcome("XPUM_METRIC_NOT_SUPPORTED", 0, <<>>, NULL)
    ELSE IF ~dataList
    THEN Outcome("XPUM_OK", getEngineCount, <<>>, NULL)
    ELSE IF ~initialized
    THEN Thrown(getEngineCount)
    ELSE LET p_data == latestData["METRIC_ENGINE_UTILIZATION"]
         IN IF p_data = NULL
            THEN Outcome("XPUM_OK", 0, <<>>, NULL)
            ELSE EngineUtilizationsLoop(Deref(p_data),
                     Ascending(DOMAIN Deref(p_data).multi), <<>>, getEngineCount)

(***************************************************************************)
(* getFabricThroughputStatistics                                            *)
(***************************************************************************)
\* a test that knows the transmitted counter only
IsFabricCounter_TransmittedOnly(type) == type = "TRANSMITTED_COUNTER"

IsFabricCounter(type) == type \in {"TRANSMITTED_COUNTER", "RECEIVED_COUNTER"}

FabricStatsRow(p_data, fabricId, did) ==
    LET measurementData == p_data.multi[fabricId]
        info == fabric_infos[fabricId]
    IN IF IsFabricCounter(info.type)
       THEN [tile_id |-> info.attach_id, remote_device_id |-> did,
             remote_device_tile_id |-> info.remote_attach_id, type |-> info.type,
             value |-> USub(measurementData.current, measurementData.min),
             accumulated |-> measurementData.current, scale |-> 1,
             min |-> 0, avg |-> 0, max |-> 0]
       ELSE [tile_id |-> info.attach_id, remote_device_id |-> did,
             remote_device_tile_id |-> info.remote_attach_id, type |-> info.type,
             value |-> measurementData.current, accumulated |-> 0,
             scale |-> p_data.scale, min |-> measurementData.min,
             avg |-> measurementData.avg, max |-> measurementData.max]

\* the entries of the sample whose fabric id the device knows
ResolvableTotal_AllEntries(p_data) == Cardinality(DOMAIN p_data.multi)
ResolvableTotal(p_data) ==
    Cardinality({ f \in DOMAIN p_data.multi : getFabricThroughputInfo(f) })

\* the loop over the entities: ids are those still to visit
RECURSIVE FabricStatisticsLoop(_, _, _, _, _)
FabricStatisticsLoop(p_data, ids, written, count, begin) ==
    IF ids = <<>>
    THEN Outcome("XPUM_OK", Len(written), written, begin)
    ELSE IF getFabricThroughputInfo(Head(ids))
    THEN LET did == getDeviceIDByFabricID(fabric_infos[Head(ids)].remote_fabric_id)
         IN IF did = NULL
            THEN Outcome("XPUM_GENERIC_ERROR", count, written, begin)
            ELSE FabricStatisticsLoop(p_data, Tail(ids),
                     Append(written, FabricStatsRow(p_data, Head(ids), Deref(did))),
                     count, begin)
    ELSE FabricStatisticsLoop(p_data, Tail(ids), written, count, begin)

\* a query that reports a sample older than the session's begin
getFabricThroughputStatistics_NoStaleTest(deviceId, dataList, count, session_id) ==
    IF deviceId \notin KnownDevices
    THEN Outcome("XPUM_RESULT_DEVICE_NOT_FOUND", 0, <<>>, NULL)
    ELSE IF ~MetricEnabled("METRIC_FABRIC_THROUGHPUT")
    THEN Outcome("XPUM_METRIC_NOT_ENABLED", 0, <<>>, NULL)
    ELSE IF ~MetricSupported("METRIC_FABRIC_THROUGHPUT")
    THEN Outcome("XPUM_METRIC_NOT_SUPPORTED", 0, <<>>, NULL)
    ELSE IF ~dataList \/ getFabricThroughputInfoCount = 0
    THEN Outcome("XPUM_OK", getFabricThroughputInfoCount, <<>>, NULL)
    ELSE IF ~initialized
    THEN Thrown(count)
    ELSE LET p_data == statsData[session_id]["METRIC_FABRIC_THROUGHPUT"]
             begin == Ptr(stats_timestamps["fabric"][SessionSlot(session_id)])
         IN IF p_data = NULL
            THEN Outcome("XPUM_OK", 0, <<>>, NULL)
            ELSE IF ResolvableTotal(Deref(p_data)) > count
            THEN Outcome("XPUM_BUFFER_TOO_SMALL",
                         ResolvableTotal(Deref(p_data)), <<>>, NULL)
            ELSE FabricStatisticsLoop(Deref(p_data),
                     Ascending(DOMAIN Deref(p_data).multi), <<>>, count, begin)

getFabricThroughputStatistics(deviceId, dataList, count, session_id) ==
    IF deviceId \notin KnownDevices
    THEN Outcome("XPUM_RESULT_DEVICE_NOT_FOUND", 0, <<>>, NULL)
    ELSE IF ~MetricEnabled("METRIC_FABRIC_THROUGHPUT")
    THEN Outcome("XPUM_METRIC_NOT_ENABLED", 0, <<>>, NULL)
    ELSE IF ~MetricSupported("METRIC_FABRIC_THROUGHPUT")
    THEN Outcome("XPUM_METRIC_NOT_SUPPORTED", 0, <<>>, NULL)
    ELSE IF ~dataList \/ getFabricThroughputInfoCount = 0
    THEN Outcome("XPUM_OK", getFabricThroughputInfoCount, <<>>, NULL)
    ELSE IF ~initialized
    THEN Thrown(count)
    ELSE LET p_data == statsData[session_id]["METRIC_FABRIC_THROUGHPUT"]
             begin == Ptr(stats_timestamps["fabric"][SessionSlot(session_id)])
         IN IF p_data = NULL
            THEN Outcome("XPUM_OK", 0, <<>>, NULL)
            ELSE IF ResolvableTotal(Deref(p_data)) > count
            THEN Outcome("XPUM_BUFFER_TOO_SMALL",
                         ResolvableTotal(Deref(p_data)), <<>>, NULL)
            ELSE IF Deref(p_data).timestamp < Deref(begin)
            THEN Outcome("XPUM_OK", 0, <<>>, begin)
            ELSE FabricStatisticsLoop(Deref(p_data),
                     Ascending(DOMAIN Deref(p_data).multi), <<>>, count, begin)

(***************************************************************************)
(* getFabricThroughput                                                      *)
(***************************************************************************)
FabricMetricRow(p_data, fabricId, did) ==
    LET measurementData == p_data.multi[fabricId]
        info == fabric_infos[fabricId]
    IN [tile_id |-> info.attach_id, remote_device_id |-> did,
        remote_device_tile_id |-> info.remote_attach_id, type |-> info.type,
        scale |-> IF IsFabricCounter(info.type) THEN 1 ELSE p_data.scale,
        value |-> measurementData.current]

RECURSIVE FabricThroughputLoop(_, _, _, _)
FabricThroughputLoop(p_data, ids, written, count) ==
    IF ids = <<>>
    THEN Outcome("XPUM_OK", Len(written), written, NULL)
    ELSE IF getFabricThroughputInfo(Head(ids))
    THEN LET did == getDeviceIDByFabricID(fabric_infos[Head(ids)].remote_fabric_id)
         IN IF did = NULL
            THEN Outcome("XPUM_GENERIC_ERROR", count, written, NULL)
            ELSE IF BufferFull(Len(written), count)
            THEN Outcome("XPUM_BUFFER_TOO_SMALL", count, written, NULL)
            ELSE FabricThroughputLoop(p_data, Tail(ids),
                     Append(written, FabricMetricRow(p_data, Head(ids), Deref(did))),
                     count)
    ELSE FabricThroughputLoop(p_data, Tail(ids), written, count)

getFabricThroughput(deviceId, dataList, count) ==
    IF deviceId \notin KnownDevices
    THEN Outcome("XPUM_RESULT_DEVICE_NOT_FOUND", 0, <<>>, NULL)
    ELSE IF ~MetricEnabled("METRIC_FABRIC_THROUGHPUT")
    THEN Outcome("XPUM_METRIC_NOT_ENABLED", 0, <<>>, NULL)
    ELSE IF ~MetricSupported("METRIC_FABRIC_THROUGHPUT")
    THEN Outcome("XPUM_METRIC_NOT_SUPPORTED", 0, <<>>, NULL)
    ELSE IF ~dataList \/ count = 0
    THEN Outcome("XPUM_OK", getFabricThroughputInfoCount, <<>>, NULL)
    ELSE IF ~initialized
    THEN Thrown(count)
    ELSE LET p_data == latestData["METRIC_FABRIC_THROUGHPUT"]
         IN IF p_data = NULL
            THEN Outcome("XPUM_OK", 0, <<>>, NULL)
            ELSE FabricThroughputLoop(Deref(p_data),
                     Ascending(DOMAIN Deref(p_data).multi), <<>>, count)

(***************************************************************************)
(* The multi-entity queries as operations on DataLogic.                     *)
(***************************************************************************)
updateFabricStatsTimestamp(session_id, now) ==
    UpdateTimestamp("updateFabricStatsTimestamp", "fabric", session_id, now)

CallGetEngineStatistics(deviceId, dataList, count, session_id) ==
    /\ last' = CallOf("getEngineStatistics", deviceId, dataList, count,
                      session_id, FALSE,
                      Sized("getEngineStatistics", deviceId, dataList, count,
                            session_id),
                      getEngineStatistics(deviceId, dataList, count, session_id))
    /\ UNCHANGED <<rateVars, retryVars, taskVars, initialized, topologyVars, pipelineVars>>

CallGetEngineUtilizations(deviceId, dataList, count) ==
    /\ last' = CallOf("getEngineUtilizations", deviceId, dataList, count, 0, FALSE,
                      Sized("getEngineUtilizations", deviceId, dataList, count, 0),
                      getEngineUtilizations(deviceId, dataList, count))
    /\ UNCHANGED <<rateVars, retryVars, taskVars, initialized, topologyVars, pipelineVars>>

CallGetFabricThroughputStatistics(deviceId, dataList, count, session_id) ==
    /\ last' = CallOf("getFabricThroughputStatistics", deviceId, dataList, count,
                      session_id, FALSE,
                      Sized("getFabricThroughputStatistics", deviceId, dataList,
                            count, session_id),
                      getFabricThroughputStatistics(deviceId, dataList, count,
                                                    session_id))
    /\ UNCHANGED <<rateVars, retryVars, taskVars, initialized, topologyVars, pipelineVars>>

CallGetFabricThroughput(deviceId, dataList, count) ==
    /\ last' = CallOf("getFabricThroughput", deviceId, dataList, count, 0, FALSE,
                      Sized("getFabricThroughput", deviceId, dataList, count, 0),
                      getFabricThroughput(deviceId, dataList, count))
    /\ UNCHANGED <<rateVars, retryVars, taskVars, initialized, topologyVars, pipelineVars>>

\* the devices of the multi-entity queries: each of the two metric types is
\* enabled or not, the device supports both or neither
MultiInit ==
    /\ RateInit
    /\ RetryIdle
    /\ TaskIdle
    /\ initialized = FALSE
    /\ num_subdevice = MaxSubdevice
    /\ capabilities \in {CapabilitiesOf(MultiEntityMetrics), {}}
    /\ enabledMetrics \in SUBSET MultiEntityMetrics
    /\ \E topology \in Topologies :
          /\ engine_handles = topology.engines
          /\ fabric_infos = topology.infos
          /\ fabric_devices = topology.devices
    /\ latestData = EmptyLatestData
    /\ statsData = EmptyStatsData
    /\ stats_timestamps = EmptyStatsTimestamps
    /\ last = NoCall

MultiNext ==
    \/ DataLogic_init
    \/ \E type \in MultiEntityMetrics : \E data \in MultiDatas(type) :
          storeMeasurementData(type, data)
    \/ \E session_id \in Sessions, now \in ClockVals :
          updateFabricStatsTimestamp(session_id, now)
    \/ \E args \in QueryArgs, session_id \in Sessions :
          CallGetEngineStatistics(args[1], args[2], args[3], session_id)
    \/ \E args \in QueryArgs :
          CallGetEngineUtilizations(args[1], args[2], args[3])
    \/ \E args \in QueryArgs, session_id \in Sessions :
          CallGetFabricThroughputStatistics(args[1], args[2], args[3], session_id)
    \/ \E args \in QueryArgs :
          CallGetFabricThroughput(args[1], args[2], args[3])

SpecMulti == MultiInit /\ [][MultiNext]_vars

\* the multi-entity queries together with the statistics query of the plain
\* metrics: every query that can return XPUM_BUFFER_TOO_SMALL
BufferNext ==
    \/ MultiNext
    \/ \E args \in QueryArgs, session_id \in Sessions :
          CallGetMetricsStatistics(args[1], args[2], args[3], session_id, FALSE)

SpecBuffer == MultiInit /\ [][BufferNext]_vars

(***************************************************************************)
(* The statistics handler of one gauge metric: samples are folded into the  *)
(* windows of every session, callers read and reset single windows.         *)
(***************************************************************************)
\* the samples one window folds at most
MaxFold == 3
\* the sample timestamps run 1 .. MaxTime, in turn
MaxTime == 2

\* the values of a device-level sample and of a sub-device sample
StatVals == {1, 2, 3}
SubStatVals == {1, 3}

\* MeasurementData of a gauge: the derived values alone
StatDataOf(onDevice, cur, subs) ==
    [hasDataOnDevice |-> onDevice, current |-> cur, subdevice_datas |-> subs]

\* the samples the producer pushes: a device-level value of device "0", a
\* value of its tile 0 alone, both at once, or a device-level value of both
\* devices
StatSamples ==
    {[dev \in {"0"} |-> StatDataOf(TRUE, v, <<>>)] : v \in StatVals \ {2}}
    \cup {[dev \in {"0"} |-> StatDataOf(FALSE, 0, (0 :> w))] : w \in SubStatVals}
    \cup {[dev \in {"0"} |-> StatDataOf(TRUE, 2, (0 :> 3))]}
    \cup {[dev \in {"0", "1"} |-> StatDataOf(TRUE, 2, <<>>)]}

handlerVars == <<p_preData, p_latestData, pc, h_pre, h_arrived>>

\* the handler's lock is held while a reader copies a window
LockFree == stats_result = <<>>

\* StatsDataHandler::handleData: the sample is folded under the handler's lock
StatsHandleData(data) ==
    /\ LockFree
    /\ \A session \in DOMAIN h_folded : \A d \in DOMAIN data :
          Len(h_folded[session][d]) < MaxFold
    /\ multi_sessions_data' = updateStatistics(multi_sessions_data, data, stats_clock)
    /\ h_folded' = Folded(h_folded, data, stats_clock)
    /\ stats_clock' = (stats_clock % MaxTime) + 1
    /\ UNCHANGED <<stats_result, handlerVars, queryVars, retryVars, taskVars>>

\* a session drops its window of a device
ResetStatistics(device_id, session_id) ==
    /\ LockFree
    /\ multi_sessions_data' =
          resetStatistics(multi_sessions_data, device_id, session_id)
    /\ h_folded' = [h_folded EXCEPT ![session_id][device_id] = <<>>]
    /\ UNCHANGED <<stats_clock, stats_result, handlerVars, queryVars, retryVars, taskVars>>

\* a session reads its window of a device: the copy is made under the lock
GetLatestStatistics(device_id, session_id) ==
    /\ LockFree
    /\ stats_result' =
          [device_id |-> device_id, session_id |-> session_id,
           p_data |-> getLatestStatistics(multi_sessions_data, device_id, session_id)]
    /\ UNCHANGED <<multi_sessions_data, stats_clock, h_folded, handlerVars, queryVars, retryVars, taskVars>>

\* the reader leaves with its copy and releases the lock
ReturnLatestStatistics ==
    /\ ~ LockFree
    /\ stats_result' = <<>>
    /\ UNCHANGED <<multi_sessions_data, stats_clock, h_folded, handlerVars, queryVars, retryVars, taskVars>>

\* the handler after construction: every session is registered, no window
\* is open
StatsInit ==
    /\ p_preData = NULL
    /\ p_latestData = NULL
    /\ pc = "idle"
    /\ h_pre = NULL
    /\ h_arrived = NULL
    /\ multi_sessions_data = [session \in Sessions |-> <<>>]
    /\ stats_clock = 1
    /\ stats_result = <<>>
    /\ h_folded = [session \in Sessions |-> [d \in RateDevices |-> <<>>]]
    /\ initialized = FALSE
    /\ num_subdevice = 0
    /\ capabilities = {}
    /\ enabledMetrics = {}
    /\ engine_handles = <<>>
    /\ fabric_infos = <<>>
    /\ fabric_devices = {}
    /\ latestData = <<>>
    /\ statsData = <<>>
    /\ stats_timestamps = <<>>
    /\ last = <<>>
    /\ RetryIdle
    /\ TaskIdle

StatsNext ==
    \/ \E data \in StatSamples : StatsHandleData(data)
    \/ \E device_id \in RateDevices, session_id \in Sessions :
          ResetStatistics(device_id, session_id)
    \/ \E device_id \in RateDevices, session_id \in Sessions :
          GetLatestStatistics(device_id, session_id)
    \/ ReturnLatestStatistics

SpecStats == StatsInit /\ [][StatsNext]_vars

(***************************************************************************)
(* getMetricsStatistics, step by step: the fetch loop over the metric       *)
(* types with the retry of the sparse ones, while the producer stores       *)
(* samples (data_logic.cpp lines 104-134).                                  *)
(***************************************************************************)
\* the seconds the retry loop allows between start_time and end_time
RetrySeconds == 30
\* the whole seconds the clock shows to have passed over sleep_for(1 s)
SleepSeconds == {1, 2}

\* the position of a metric type in the enumeration MeasurementType
MetricIndex(type) ==
    CHOOSE i \in 1 .. Len(getMetricsTypes) : getMetricsTypes[i] = type

\* the test of the retry branch: a RAS error category or an EU counter
isSparseMetric(type) ==
    \/ /\ MetricIndex(type) >= MetricIndex("METRIC_RAS_ERROR_CAT_RESET")
       /\ MetricIndex(type)
            <= MetricIndex("METRIC_RAS_ERROR_CAT_NON_COMPUTE_ERRORS_UNCORRECTABLE")
    \/ /\ MetricIndex(type) >= MetricIndex("METRIC_EU_ACTIVE")
       /\ MetricIndex(type) <= MetricIndex("METRIC_EU_IDLE")

\* a retry loop that gives up after half the time
RetryAllowed_HalfTime(start_time, end_time) ==
    end_time - start_time <= RetrySeconds \div 2

\* the condition of the retry loop
RetryAllowed(start_time, end_time) == end_time - start_time <= RetrySeconds

\* the metric types of the calls: power and the two sparse types
RetryMetrics == {"METRIC_POWER"} \cup SparseMetrics
\* the sample the producer stores for them
RetryData == StatisticsDataOf(TRUE, 5, 2, 3, 5, [s \in {0} |-> SubdeviceStatistics(6, 2, 4, 6)])

\* history: the fetch of one metric type: whether a sample was found,
\* whether the retry loop was entered, the seconds since start_time at the
\* latest query, the least seconds between two queries of the loop, and the
\* seconds since start_time when the fetch ended
FetchEnded(found, retried, lastQuery, interval, elapsed) ==
    [found |-> found, retried |-> retried, lastQuery |-> lastQuery,
     interval |-> interval, elapsed |-> elapsed]

\* the call begins: the enabled metric types the device supports, in order
BeginGetMetricsStatistics(session_id) ==
    /\ r_pc = "idle"
    /\ initialized
    /\ r_pc' = "fetch"
    /\ r_session' = session_id
    /\ r_types' = SelectSeq(getMetricsTypes,
                      LAMBDA t : /\ t \in FilterByCapability(enabledMetrics)
                                 /\ t \notin MultiEntityMetrics)
    /\ r_datas' = <<>>
    /\ r_now' = 0
    /\ r_start' = 0
    /\ r_end' = 0
    /\ r_done' = <<>>
    /\ r_result' = NULL
    /\ UNCHANGED <<rateVars, queryVars, taskVars>>

\* the first fetch of a metric type: the sample, the retry loop, or nothing
\* (the idle-power probe reports no device data during these calls)
FetchMetric ==
    /\ r_pc = "fetch"
    /\ r_types # <<>>
    /\ LET type == Head(r_types)
           p_data == statsData[r_session][type]
       IN IF p_data # NULL
          THEN /\ r_datas' = (type :> Deref(p_data)) @@ r_datas
               /\ r_done' = (type :> FetchEnded(TRUE, FALSE, 0, RetrySeconds, 0)) @@ r_done
               /\ r_types' = Tail(r_types)
               /\ UNCHANGED <<r_pc, r_start, r_end>>
          ELSE IF isSparseMetric(type)
          THEN /\ r_start' = r_now
               /\ r_end' = r_now
               /\ r_pc' = "retry"
               /\ r_done' = (type :> FetchEnded(FALSE, TRUE, 0, RetrySeconds, 0)) @@ r_done
               /\ UNCHANGED <<r_datas, r_types>>
          ELSE /\ r_done' = (type :> FetchEnded(FALSE, FALSE, 0, RetrySeconds, 0)) @@ r_done
               /\ r_types' = Tail(r_types)
               /\ UNCHANGED <<r_pc, r_datas, r_start, r_end>>
    /\ UNCHANGED <<r_session, r_now, r_result>>
    /\ UNCHANGED <<rateVars, queryVars, taskVars>>

\* one pass of the retry loop: the loop test, then the query
RetryMetric ==
    /\ r_pc = "retry"
    /\ LET type == Head(r_types)
           p_data == statsData[r_session][type]
           elapsed == r_end - r_start
           \* the first pass follows the first fetch at once
           queried == [r_done EXCEPT
                          ![type].interval =
                              IF elapsed = 0 THEN @
                              ELSE Min2(@, elapsed - r_done[type].lastQuery),
                          ![type].lastQuery = elapsed,
                          ![type].elapsed = elapsed]
       IN IF ~ RetryAllowed(r_start, r_end)
          THEN /\ r_types' = Tail(r_types)
               /\ r_pc' = "fetch"
               /\ r_done' = [r_done EXCEPT ![type].elapsed = elapsed]
               /\ UNCHANGED r_datas
          ELSE IF p_data # NULL
          THEN /\ r_datas' = (type :> Deref(p_data)) @@ r_datas
               /\ r_types' = Tail(r_types)
               /\ r_pc' = "fetch"
               /\ r_done' = [queried EXCEPT ![type].found = TRUE]
          ELSE /\ r_pc' = "sleep"
               /\ r_done' = queried
               /\ UNCHANGED <<r_datas, r_types>>
    /\ UNCHANGED <<r_session, r_now, r_start, r_end, r_result>>
    /\ UNCHANGED <<rateVars, queryVars, taskVars>>

\* sleep_for(1 s), then end_time is read from the clock
SleepMetric(seconds) ==
    /\ r_pc = "sleep"
    /\ r_now' = r_now + seconds
    /\ r_end' = r_now + seconds
    /\ r_pc' = "retry"
    /\ UNCHANGED <<r_session, r_types, r_datas, r_start, r_done, r_result>>
    /\ UNCHANGED <<rateVars, queryVars, taskVars>>

\* the rows are assembled from m_datas and the call returns
ReturnGetMetricsStatistics ==
    /\ r_pc = "fetch"
    /\ r_types = <<>>
    /\ r_pc' = "idle"
    /\ r_result' =
          Ptr(WriteStatsTileRows(r_datas, 0, <<DeviceStatsRow(r_datas)>>,
                  RequiredRows(num_subdevice),
                  Ptr(stats_timestamps["stats"][SessionSlot(r_session)])))
    /\ UNCHANGED <<r_session, r_types, r_datas, r_now, r_start, r_end, r_done>>
    /\ UNCHANGED <<rateVars, queryVars, taskVars>>

\* the pipeline after init(), holding samples of some of the metric types
RetryInit ==
    /\ RateInit
    /\ RetryIdle
    /\ TaskIdle
    /\ initialized = TRUE
    /\ num_subdevice = 1
    /\ capabilities = CapabilitiesOf(RetryMetrics)
    /\ enabledMetrics = RetryMetrics
    /\ engine_handles = <<>>
    /\ fabric_infos = <<>>
    /\ fabric_devices = {}
    /\ \E held \in SUBSET RetryMetrics :
          /\ latestData = [t \in QueryMetrics \cup SparseMetrics |->
                              IF t \in held THEN Ptr(RetryData) ELSE NULL]
          /\ statsData = [s \in WideSessions |->
                            [t \in QueryMetrics \cup SparseMetrics |->
                                IF t \in held THEN Ptr(RetryData) ELSE NULL]]
    /\ stats_timestamps = EmptyStatsTimestamps
    /\ last = NoCall

\* the steps of the calling thread
CallStep ==
    \/ FetchMetric
    \/ RetryMetric
    \/ \E seconds \in SleepSeconds : SleepMetric(seconds)
    \/ ReturnGetMetricsStatistics

RetryNext ==
    \/ BeginGetMetricsStatistics(0)
    \/ CallStep
    \/ \E type \in RetryMetrics : storeMeasurementData(type, RetryData)

\* the calling thread is scheduled and sleep_for returns
SpecRetry == RetryInit /\ [][RetryNext]_vars /\ WF_vars(CallStep)

(***************************************************************************)
(* The pipeline operations of DataLogic called directly: the store, the     *)
(* two reads, and update/get of the three stats timestamps, before and      *)
(* after init(), with the three statistics queries that return begin.       *)
(***************************************************************************)
\* the values Utility::getCurrentTime() returns to the timestamp updates
PipelineClock == {1, 3}
\* the metric types the producer stores and the callers read here
PipelineMetrics == {"METRIC_POWER", "METRIC_FABRIC_THROUGHPUT"}
\* the samples the producer stores for a type
PipelineDatas(type) ==
    IF type = "METRIC_POWER" THEN {RetryData} ELSE FabricDatas

\* what a read of the pipeline returns to its caller: the sample in rows (no
\* row for nullptr), or the exception
ReadOutcome(p_data) ==
    IF ~initialized THEN Thrown(0)
    ELSE Outcome("void", 0, IF p_data = NULL THEN <<>> ELSE <<Deref(p_data)>>, NULL)

getLatestData(type) ==
    /\ last' = CallOf("getLatestData", 0, FALSE, 0, 0, FALSE, FALSE,
                      ReadOutcome(latestData[type]))
    /\ UNCHANGED <<rateVars, retryVars, taskVars, initialized, topologyVars, pipelineVars>>

CallGetLatestStatistics(type, session_id) ==
    /\ last' = CallOf("getLatestStatistics", 0, FALSE, 0, session_id, FALSE,
                      FALSE, ReadOutcome(statsData[session_id][type]))
    /\ UNCHANGED <<rateVars, retryVars, taskVars, initialized, topologyVars, pipelineVars>>

\* get*StatsTimestamp of one family returns the timestamp of a session
GetTimestamp(fn, family, session_id) ==
    /\ last' = CallOf(fn, 0, FALSE, 0, session_id, FALSE, FALSE,
                      IF initialized
                      THEN Outcome("void", 0, <<>>,
                               Ptr(stats_timestamps[family][SessionSlot(session_id)]))
                      ELSE Thrown(0))
    /\ UNCHANGED <<rateVars, retryVars, taskVars, initialized, topologyVars, pipelineVars>>

getStatsTimestamp(session_id) ==
    GetTimestamp("getStatsTimestamp", "stats", session_id)
updateEngineStatsTimestamp(session_id, now) ==
    UpdateTimestamp("updateEngineStatsTimestamp", "engine", session_id, now)
getEngineStatsTimestamp(session_id) ==
    GetTimestamp("getEngineStatsTimestamp", "engine", session_id)
getFabricStatsTimestamp(session_id) ==
    GetTimestamp("getFabricStatsTimestamp", "fabric", session_id)

\* a device with a tile, two engines and two links, every metric type
\* enabled and supported, and a DataLogic on which init() has not run
PipelineInit ==
    /\ RateInit
    /\ RetryIdle
    /\ TaskIdle
    /\ initialized = FALSE
    /\ num_subdevice = 1
    /\ capabilities = CapabilitiesOf(QueryMetrics)
    /\ enabledMetrics = QueryMetrics
    /\ engine_handles = <<1, 2>>
    /\ fabric_infos = TwoLinks
    /\ fabric_devices = [r \in {7, 8} |-> 1]
    /\ latestData = EmptyLatestData
    /\ statsData = EmptyStatsData
    /\ stats_timestamps = EmptyStatsTimestamps
    /\ last = NoCall

\* the statistics queries, each with a buffer that holds all its rows
PipelineQuery(session_id) ==
    \/ CallGetMetricsStatistics(0, TRUE, 2, session_id, FALSE)
    \/ CallGetEngineStatistics(0, TRUE, 2, session_id)
    \/ CallGetFabricThroughputStatistics(0, TRUE, 2, session_id)

PipelineNext ==
    \/ DataLogic_init
    \/ \E type \in PipelineMetrics : \E data \in PipelineDatas(type) :
          storeMeasurementData(type, data)
    \/ \E type \in PipelineMetrics : getLatestData(type)
    \/ \E type \in PipelineMetrics, session_id \in Sessions :
          CallGetLatestStatistics(type, session_id)
    \/ \E session_id \in Sessions, now \in PipelineClock :
          \/ updateStatsTimestamp(session_id, now)
          \/ updateEngineStatsTimestamp(session_id, now)
          \/ updateFabricStatsTimestamp(session_id, now)
    \/ \E session_id \in Sessions :
          \/ getStatsTimestamp(session_id)
          \/ getEngineStatsTimestamp(session_id)
          \/ getFabricStatsTimestamp(session_id)
    \/ \E session_id \in WideSessions : PipelineQuery(session_id)

SpecPipeline == PipelineInit /\ [][PipelineNext]_vars

(***************************************************************************)
(* The handler chain of one counter metric with a registered session:       *)
(* handleData runs counterOverflowDetection, calculateData and              *)
(* updateStatistics, each under the handler's mutex for its own duration,   *)
(* while readers take the mutex for a copy of the latest sample or of a     *)
(* window.                                                                  *)
(***************************************************************************)
\* the sessions registered with the handler
ChainSessions == {0}
\* the values one window folds at most
ChainFold == 2

\* the samples of device "0": a device-level counter, alone or with the
\* counter of tile 0; a sample arrives without a derived value (the "no data"
\* sentinel) or with one
ChainSamples ==
    {[dev \in {"0"} |-> MeasurementDataOf(TRUE, r, t, c, NoSubdevices)] :
        r \in CounterVals, t \in RawTimes, c \in ArrivedCurrent \cup {UINT64_MAX}}
    \cup
    {[dev \in {"0"} |->
         MeasurementDataOf(TRUE, r, t, UINT64_MAX,
             [s \in {0} |-> [raw_data |-> rs, raw_timestamp |-> t]])] :
        r \in CounterVals, rs \in CounterVals, t \in RawTimes}

\* a MeasurementData as updateStatistics reads it: the derived values that
\* are not the "no data" sentinel
StatisticsView(m) ==
    StatDataOf(m.current # UINT64_MAX, m.current,
               [s \in {s \in DOMAIN m.subdevice_datas :
                          m.subdevice_datas[s] # UINT64_MAX} |->
                   m.subdevice_datas[s]])

\* no reader holds a copy it has not returned with; a copy is made in one
\* step under the mutex, at any point between two steps of the producer,
\* and the producer's next step is taken up once the reader has returned
NoReader == stats_result = <<>>

\* every open window has room for a fold
RoomToFold ==
    \A session \in DOMAIN multi_sessions_data :
        \A d \in DOMAIN multi_sessions_data[session] :
            LET w == multi_sessions_data[session][d]
            IN /\ w.count < ChainFold
               /\ \A s \in DOMAIN w.subdevice_datas :
                     w.subdevice_datas[s].count < ChainFold

\* storeMeasurementData up to handleData's entry test
ChainStore(sample) ==
    /\ NoReader
    /\ RoomToFold
    /\ StoreMeasurementData(sample)

\* the two locked steps of handleData before updateStatistics
ChainOverflow == NoReader /\ OverflowStep
ChainCalculate == NoReader /\ CalculateStep

\* updateStatistics(p_data), the last call of handleData
ChainStatistics ==
    /\ NoReader
    /\ pc = "statistics"
    /\ pc' = "idle"
    /\ LET data == [d \in DOMAIN Deref(p_latestData) |->
                       StatisticsView(Deref(p_latestData)[d])]
       IN multi_sessions_data' =
              updateStatistics(multi_sessions_data, data, stats_clock)
    /\ stats_clock' = (stats_clock % MaxTime) + 1
    /\ UNCHANGED <<p_preData, p_latestData, h_pre, h_arrived>>
    /\ UNCHANGED <<stats_result, h_folded, queryVars, retryVars, taskVars>>

\* history: the producer is between two steps of handleData with the
\* baseline dropped or cleared and the rate not yet computed, or with a
\* rate written and the windows not yet folded
PartlyHandled ==
    \/ pc = "calculate" /\ p_preData # h_pre
    \/ pc = "statistics" /\ p_latestData # h_arrived

\* what a reader leaves with: its copy, and where the producer stood while
\* the reader held the mutex
ReadResult(fn, device_id, session_id, p_data) ==
    [fn |-> fn, device_id |-> device_id, session_id |-> session_id,
     p_data |-> p_data, stage |-> pc, partly |-> PartlyHandled]

\* DataHandler::getLatestData: a copy of the latest sample of a device
ReadLatestData(device_id) ==
    /\ NoReader
    /\ stats_result' =
          ReadResult("getLatestData", device_id, 0,
              IF p_latestData # NULL /\ device_id \in DOMAIN Deref(p_latestData)
              THEN Ptr(Deref(p_latestData)[device_id]) ELSE NULL)
    /\ UNCHANGED <<multi_sessions_data, stats_clock, h_folded, handlerVars,
                   queryVars, retryVars, taskVars>>

\* StatsDataHandler::getLatestStatistics: a copy of a window
ReadLatestStatistics(device_id, session_id) ==
    /\ NoReader
    /\ stats_result' =
          ReadResult("getLatestStatistics", device_id, session_id,
              getLatestStatistics(multi_sessions_data, device_id, session_id))
    /\ UNCHANGED <<multi_sessions_data, stats_clock, h_folded, handlerVars,
                   queryVars, retryVars, taskVars>>

\* the reader returns
ReadReturn ==
    /\ ~ NoReader
    /\ stats_result' = <<>>
    /\ UNCHANGED <<multi_sessions_data, stats_clock, h_folded, handlerVars,
                   queryVars, retryVars, taskVars>>

\* the handler after construction: the session is registered, no window is
\* open, no sample has arrived
ChainInit ==
    /\ p_preData = NULL
    /\ p_latestData = NULL
    /\ pc = "idle"
    /\ h_pre = NULL
    /\ h_arrived = NULL
    /\ multi_sessions_data = [session \in ChainSessions |-> <<>>]
    /\ stats_clock = 1
    /\ stats_result = <<>>
    /\ h_folded = <<>>
    /\ initialized = FALSE
    /\ num_subdevice = 0
    /\ capabilities = {}
    /\ enabledMetrics = {}
    /\ engine_handles = <<>>
    /\ fabric_infos = <<>>
    /\ fabric_devices = {}
    /\ latestData = <<>>
    /\ statsData = <<>>
    /\ stats_timestamps = <<>>
    /\ last = <<>>
    /\ RetryIdle
    /\ TaskIdle

ChainNext ==
    \/ \E sample \in ChainSamples : ChainStore(sample)
    \/ ChainOverflow
    \/ ChainCalculate
    \/ ChainStatistics
    \/ ReadLatestData("0")
    \/ \E session_id \in ChainSessions : ReadLatestStatistics("0", session_id)
    \/ ReadReturn

SpecChain == ChainInit /\ [][ChainNext]_vars

(***************************************************************************)
(* Properties of the rate handler.                                          *)
(***************************************************************************)
Latest == Deref(p_latestData)
Arrived == Deref(h_arrived)
Previous == Deref(h_pre)
Baseline == Deref(p_preData)

\* the handling of a sample with a predecessor has passed calculateData
Calculated == pc \in {"statistics", "idle"} /\ h_pre # NULL

\* a pair of raw entries that strictly increases in value and in time,
\* neither value being the sentinel
StrictlyIncreasing(pre_data, pre_ts, cur_data, cur_ts) ==
    /\ pre_data # UINT64_MAX /\ cur_data # UINT64_MAX
    /\ cur_data > pre_data /\ cur_ts > pre_ts

\* the sub-devices of device d that the baseline b and the sample both carry
CommonSubdevices(b, d) ==
    IF d \in DOMAIN b
    THEN DOMAIN Arrived[d].subdevice_rawdatas \cap DOMAIN b[d].subdevice_rawdatas
    ELSE {}

\* C7 (as claimed): every device-level or sub-device entity that has a
\* baseline when calculateData runs and whose raw value/timestamp pair strictly
\* increases carries exactly (cur.raw - pre.raw) / (cur.ts - pre.ts) afterwards.
C7_RateExact ==
    (pc = "statistics" /\ p_preData # NULL) =>
        \A d \in DOMAIN Latest \cap DOMAIN Baseline :
            /\ (/\ Latest[d].has_raw_data_on_device
                /\ Baseline[d].has_raw_data_on_device
                /\ StrictlyIncreasing(Baseline[d].raw_data, Baseline[d].raw_timestamp,
                                      Latest[d].raw_data, Latest[d].raw_timestamp))
               => Latest[d].current =
                    (Latest[d].raw_data - Baseline[d].raw_data)
                    \div (Latest[d].raw_timestamp - Baseline[d].raw_timestamp)
            /\ \A s \in CommonSubdevices(Baseline, d) :
                 LET pre == Baseline[d].subdevice_rawdatas[s]
                     cur == Latest[d].subdevice_rawdatas[s]
                 IN StrictlyIncreasing(pre.raw_data, pre.raw_timestamp,
                                       cur.raw_data, cur.raw_timestamp)
                    => Latest[d].subdevice_datas[s] =
                         (cur.raw_data - pre.raw_data)
                         \div (cur.raw_timestamp - pre.raw_timestamp)

\* C8: a raw value lower than its predecessor's never yields a rate: after
\* handleData the entity's derived value is the one the sample arrived with;
\* and the baseline of a sample is always the sample before it, so a lower
\* sample is the baseline of the sample that follows (device-level rate of an
\* increasing pair is taken against the previous sample).
C8_NoRateFromDecrease ==
    /\ Calculated =>
         \A d \in DOMAIN Arrived \cap DOMAIN Previous :
            /\ (/\ Arrived[d].has_raw_data_on_device
                /\ Previous[d].has_raw_data_on_device
                /\ Previous[d].raw_data > Arrived[d].raw_data)
               => Latest[d].current = Arrived[d].current
            /\ \A s \in CommonSubdevices(Previous, d) :
                 Previous[d].subdevice_rawdatas[s].raw_data
                    > Arrived[d].subdevice_rawdatas[s].raw_data
                 => Latest[d].subdevice_datas[s] = Arrived[d].subdevice_datas[s]
    /\ (Calculated /\ p_preData # NULL) =>
         \A d \in DOMAIN Arrived \cap DOMAIN Previous :
            (/\ Arrived[d].has_raw_data_on_device
             /\ Previous[d].has_raw_data_on_device
             /\ StrictlyIncreasing(Previous[d].raw_data, Previous[d].raw_timestamp,
                                   Arrived[d].raw_data, Arrived[d].raw_timestamp))
            => Latest[d].current =
                 (Arrived[d].raw_data - Previous[d].raw_data)
                 \div (Arrived[d].raw_timestamp - Previous[d].raw_timestamp)

\* a handled sample in which a device-level and a sub-device counter are lower
\* than in the sample before, both left with the value they arrived with
C8_Witness ==
    /\ Calculated
    /\ \E d \in DOMAIN Arrived \cap DOMAIN Previous :
          /\ Arrived[d].has_raw_data_on_device
          /\ Previous[d].has_raw_data_on_device
          /\ Previous[d].raw_data # UINT64_MAX
          /\ Previous[d].raw_data > Arrived[d].raw_data
          /\ Latest[d].current = Arrived[d].current
    \/ /\ Calculated
       /\ \E d \in DOMAIN Arrived \cap DOMAIN Previous :
          \E s \in CommonSubdevices(Previous, d) :
             /\ Previous[d].subdevice_rawdatas[s].raw_data # UINT64_MAX
             /\ Previous[d].subdevice_rawdatas[s].raw_data
                  > Arrived[d].subdevice_rawdatas[s].raw_data
             /\ Latest[d].subdevice_datas[s] = Arrived[d].subdevice_datas[s]
             /\ \E s2 \in CommonSubdevices(Previous, d) :
                  Latest[d].subdevice_datas[s2] # Arrived[d].subdevice_datas[s2]

\* the counter of an entity decreased between the previous sample and this one
Decreased(pre_data, cur_data) ==
    pre_data # UINT64_MAX /\ cur_data # UINT64_MAX /\ pre_data > cur_data

DeviceDecreased(d) ==
    /\ d \in DOMAIN Arrived \cap DOMAIN Previous
    /\ Arrived[d].has_raw_data_on_device
    /\ Previous[d].has_raw_data_on_device
    /\ Decreased(Previous[d].raw_data, Arrived[d].raw_data)

SubdeviceDecreased(d, s) ==
    /\ s \in CommonSubdevices(Previous, d)
    /\ Decreased(Previous[d].subdevice_rawdatas[s].raw_data,
                 Arrived[d].subdevice_rawdatas[s].raw_data)

\* C9 (as claimed): after counterOverflowDetection, a device-level decrease
\* has discarded the previous snapshot of that device; with no device-level
\* decrease in the sample, a decrease of sub-device s has cleared exactly the
\* previous raw entry of s, and the entries of the siblings that did not
\* decrease are the ones the previous sample had.
C9_OverflowScope ==
    (pc = "calculate") =>
        /\ \A d \in DOMAIN Arrived :
              DeviceDecreased(d) => (p_preData = NULL \/ d \notin DOMAIN Baseline)
        /\ (\A d \in DOMAIN Arrived : ~DeviceDecreased(d)) =>
              /\ p_preData # NULL
              /\ \A d \in DOMAIN Arrived \cap DOMAIN Previous :
                    \A s \in DOMAIN Previous[d].subdevice_rawdatas :
                       IF SubdeviceDecreased(d, s)
                       THEN s \notin DOMAIN Baseline[d].subdevice_rawdatas
                       ELSE /\ s \in DOMAIN Baseline[d].subdevice_rawdatas
                            /\ Baseline[d].subdevice_rawdatas[s]
                                 = Previous[d].subdevice_rawdatas[s]

\* C10: an entity whose raw timestamp equals the one of the previous sample
\* gets no rate update: its derived value is the one the sample arrived with.
C10_EqualTimestampNoUpdate ==
    Calculated =>
        \A d \in DOMAIN Arrived \cap DOMAIN Previous :
            /\ (/\ Arrived[d].has_raw_data_on_device
                /\ Previous[d].has_raw_data_on_device
                /\ Arrived[d].raw_timestamp = Previous[d].raw_timestamp)
               => Latest[d].current = Arrived[d].current
            /\ \A s \in CommonSubdevices(Previous, d) :
                 Arrived[d].subdevice_rawdatas[s].raw_timestamp
                    = Previous[d].subdevice_rawdatas[s].raw_timestamp
                 => Latest[d].subdevice_datas[s] = Arrived[d].subdevice_datas[s]

\* a handled sample with an increasing counter on device level and on a
\* sub-device, both with the timestamp of the sample before, and a baseline
\* that calculateData still had
C10_Witness ==
    /\ pc = "statistics" /\ p_preData # NULL
    /\ \E d \in DOMAIN Arrived \cap DOMAIN Baseline :
          /\ Arrived[d].has_raw_data_on_device
          /\ Baseline[d].has_raw_data_on_device
          /\ Baseline[d].raw_data # UINT64_MAX
          /\ Arrived[d].raw_data # UINT64_MAX
          /\ Arrived[d].raw_data > Baseline[d].raw_data
          /\ Arrived[d].raw_timestamp = Baseline[d].raw_timestamp
          /\ Latest[d].current = Arrived[d].current
          /\ \E s \in CommonSubdevices(Baseline, d) :
                /\ Baseline[d].subdevice_rawdatas[s].raw_data # UINT64_MAX
                /\ Arrived[d].subdevice_rawdatas[s].raw_data
                     > Baseline[d].subdevice_rawdatas[s].raw_data
                /\ Arrived[d].subdevice_rawdatas[s].raw_timestamp
                     = Baseline[d].subdevice_rawdatas[s].raw_timestamp
                /\ Latest[d].subdevice_datas[s] = Arrived[d].subdevice_datas[s]

(***************************************************************************)
(* Properties of the queries.                                               *)
(***************************************************************************)
PlainQueries == {"getLatestMetrics", "getMetricsStatistics"}
EngineQueries == {"getEngineUtilizations", "getEngineStatistics"}
FabricQueries == {"getFabricThroughput", "getFabricThroughputStatistics"}
BufferQueries == PlainQueries \cup EngineQueries \cup FabricQueries

\* the last operation was a query that returned (it raised no exception)
Returned(fns) == last.fn \in fns /\ last.result # "IlegalStateException"
\* the metric type a multi-entity query is about
MetricOf(fn) ==
    IF fn \in EngineQueries THEN "METRIC_ENGINE_UTILIZATION"
    ELSE "METRIC_FABRIC_THROUGHPUT"
\* the sample a multi-entity query reads
SampleOf(call) ==
    IF call.fn \in {"getEngineStatistics", "getFabricThroughputStatistics"}
    THEN statsData[call.session_id][MetricOf(call.fn)]
    ELSE latestData[MetricOf(call.fn)]
\* the rows a query has to emit for what the device and the pipeline hold
RowsToEmit(call) ==
    IF call.deviceId \notin KnownDevices THEN 0
    ELSE IF call.fn \in PlainQueries THEN num_subdevice + 1
    ELSE IF \/ MetricOf(call.fn) \notin enabledMetrics
            \/ capabilityFromMeasurementType(MetricOf(call.fn)) \notin capabilities
            \/ SampleOf(call) = NULL
    THEN 0
    ELSE LET multi == Deref(SampleOf(call)).multi
         IN Cardinality({ e \in DOMAIN multi :
              CASE call.fn = "getEngineStatistics" ->
                     /\ \E i \in 1 .. Len(engine_handles) : engine_handles[i] = e
                     /\ multi[e].current # UINT64_MAX
                [] call.fn = "getEngineUtilizations" ->
                     \E i \in 1 .. Len(engine_handles) : engine_handles[i] = e
                [] OTHER -> e \in DOMAIN fabric_infos })

\* C1: a query called with a buffer never writes more rows than the capacity
\* the caller supplied, and when the rows to emit exceed that capacity it
\* signals BUFFER_TOO_SMALL (a call aborted by GENERIC_ERROR set aside).
C1_NoOverrun ==
    (Returned(BufferQueries) /\ last.hasBuffer) =>
        /\ Len(last.rows) <= last.capacity
        /\ (RowsToEmit(last) > last.capacity /\ last.result # "XPUM_GENERIC_ERROR")
              => last.result = "XPUM_BUFFER_TOO_SMALL"

\* the answer of a plain query without a buffer on a known device with N
\* sub-devices: count = N+1, no row, and OK from getMetricsStatistics
C2_SizingAnswer ==
    (last.fn \in PlainQueries /\ ~last.hasBuffer /\ last.deviceId \in KnownDevices) =>
        /\ last.count = num_subdevice + 1
        /\ last.rows = <<>>
        /\ last.fn = "getMetricsStatistics" => last.result = "XPUM_OK"
\* a step that is such a query changes neither the rate handler, nor the
\* initialization, nor the latest samples, the windows or the timestamps
C2_SizingFrame ==
    (last'.fn \in PlainQueries /\ ~last'.hasBuffer /\ last'.deviceId \in KnownDevices)
        => UNCHANGED <<rateVars, initialized, pipelineVars>>
\* C2: always, the answer of a plain query without a buffer is as above, and
\* every such step leaves the rate baselines and the pipeline unchanged.
C2_SizingCall == [] C2_SizingAnswer /\ [][C2_SizingFrame]_vars
\* a sizing call on a device with tiles whose pipeline holds samples
C2_Witness ==
    /\ last.fn = "getMetricsStatistics" /\ ~last.hasBuffer
    /\ last.deviceId \in KnownDevices
    /\ num_subdevice >= 1 /\ last.count = num_subdevice + 1
    /\ \A t \in PlainMetrics : latestData[t] # NULL
    /\ \E s \in SessionSlots : stats_timestamps["stats"][s] # 0

\* C3: getMetricsStatistics with a buffer on a known device of the initialized
\* pipeline returns OK with count = N+1 when the supplied count is at least
\* N+1, so for the count of the sizing call, and BUFFER_TOO_SMALL otherwise.
C3_BufferProtocol ==
    (/\ initialized /\ last.fn = "getMetricsStatistics"
     /\ last.hasBuffer /\ last.deviceId \in KnownDevices) =>
        /\ last.capacity >= num_subdevice + 1 =>
              last.result = "XPUM_OK" /\ last.count = num_subdevice + 1
        /\ last.capacity <= num_subdevice => last.result = "XPUM_BUFFER_TOO_SMALL"
        /\ last.sized => last.result = "XPUM_OK"
\* the second call of the protocol, on a device with tiles, returning rows
\* that carry entries
C3_Witness ==
    /\ initialized /\ last.fn = "getMetricsStatistics" /\ last.sized
    /\ last.result = "XPUM_OK" /\ num_subdevice >= 1
    /\ last.count = num_subdevice + 1
    /\ \E i \in 1 .. Len(last.rows) : last.rows[i].dataList # <<>>

\* the second call of the protocol: a buffer of the count that the same
\* multi-entity query answered just before, on the initialized pipeline
SizedMultiCall == initialized /\ last.fn \in (EngineQueries \cup FabricQueries) /\ last.sized

C5_CapabilityFilter ==
    last.fn \in PlainQueries =>
        \A i \in 1 .. Len(last.rows) :
            \A j \in 1 .. Len(last.rows[i].dataList) :
                capabilityFromMeasurementType(
                    measurementTypeFromXpumStatsType(
                        last.rows[i].dataList[j].metricsType)) \in capabilities
\* the statistics query with the idle-power probe reporting device data, on
\* a device that lacks the power capability but has samples of both metrics
C5_Witness ==
    /\ last.fn = "getMetricsStatistics" /\ last.idle
    /\ "METRIC_POWER" \in enabledMetrics
    /\ capabilityFromMeasurementType("METRIC_POWER") \notin capabilities
    /\ statsData[last.session_id]["METRIC_POWER"] # NULL
    /\ \E i \in 1 .. Len(last.rows) : last.rows[i].dataList # <<>>

\* C6: the result of a multi-entity query follows the precedence unknown
\* device, then metric not enabled, then capability absent, with or without
\* a buffer.
C6_ResultPrecedence ==
    Returned(EngineQueries \cup FabricQueries) =>
        IF last.deviceId \notin KnownDevices
        THEN last.result = "XPUM_RESULT_DEVICE_NOT_FOUND"
        ELSE IF MetricOf(last.fn) \notin enabledMetrics
        THEN last.result = "XPUM_METRIC_NOT_ENABLED"
        ELSE IF capabilityFromMeasurementType(MetricOf(last.fn)) \notin capabilities
        THEN last.result = "XPUM_METRIC_NOT_SUPPORTED"
        ELSE last.result \in {"XPUM_OK", "XPUM_BUFFER_TOO_SMALL",
                              "XPUM_GENERIC_ERROR"}

(***************************************************************************)
(* Further properties of the rate handler.                                  *)
(***************************************************************************)
\* C11: a rate is written only from a pair of entries of the same entity
\* whose raw timestamp strictly increases; a pair whose raw timestamp
\* decreases leaves the derived value the sample arrived with.
C11_RateOnlyForIncreasingTime ==
    Calculated =>
        \A d \in DOMAIN Arrived :
            /\ Latest[d].current # Arrived[d].current =>
                  /\ d \in DOMAIN Previous
                  /\ Arrived[d].has_raw_data_on_device
                  /\ Previous[d].has_raw_data_on_device
                  /\ Arrived[d].raw_timestamp > Previous[d].raw_timestamp
            /\ \A s \in DOMAIN Arrived[d].subdevice_rawdatas :
                  Latest[d].subdevice_datas[s] # Arrived[d].subdevice_datas[s] =>
                     /\ s \in CommonSubdevices(Previous, d)
                     /\ Arrived[d].subdevice_rawdatas[s].raw_timestamp
                          > Previous[d].subdevice_rawdatas[s].raw_timestamp

(* Properties of the statistics windows. *)
RECURSIVE SeqSum(_)
SeqSum(vs) == IF vs = <<>> THEN 0 ELSE Head(vs) + SeqSum(Tail(vs))

SeqValues(vs) == {vs[i] : i \in 1..Len(vs)}
SeqMinimum(vs) == CHOOSE x \in SeqValues(vs) : \A y \in SeqValues(vs) : x <= y
SeqMaximum(vs) == CHOOSE x \in SeqValues(vs) : \A y \in SeqValues(vs) : x >= y

\* the device-level values of a sequence of folded samples
RECURSIVE DeviceValues(_)
DeviceValues(h) ==
    IF h = <<>> THEN <<>>
    ELSE (IF Head(h).data.hasDataOnDevice THEN <<Head(h).data.current>> ELSE <<>>)
         \o DeviceValues(Tail(h))

\* the values of sub-device s in a sequence of folded samples
RECURSIVE SubdeviceValues(_, _)
SubdeviceValues(h, s) ==
    IF h = <<>> THEN <<>>
    ELSE (IF s \in DOMAIN Head(h).data.subdevice_datas
          THEN <<Head(h).data.subdevice_datas[s]>> ELSE <<>>)
         \o SubdeviceValues(Tail(h), s)

\* count, min, max and avg of w are those of the values vs, avg being the
\* exact arithmetic mean
SummaryOf(w, vs) ==
    /\ w.count = Len(vs)
    /\ vs # <<>> =>
          /\ w.min = SeqMinimum(vs)
          /\ w.max = SeqMaximum(vs)
          /\ w.avg * Len(vs) = SeqSum(vs)

\* the windows that are open, as (session, device) pairs
OpenWindows ==
    {sd \in (DOMAIN multi_sessions_data) \X RateDevices :
        sd[2] \in DOMAIN multi_sessions_data[sd[1]]}

WindowOf(sd) == multi_sessions_data[sd[1]][sd[2]]
FoldedOf(sd) == h_folded[sd[1]][sd[2]]

\* C12: a window's device-level count, min, max and avg are the number, the
\* minimum, the maximum and the arithmetic mean of the device-level values
\* folded since it was opened, and each sub-device window summarises the
\* values of the samples that carried that sub-device.
C12_FoldSummarises ==
    \A sd \in OpenWindows :
        /\ SummaryOf(WindowOf(sd), DeviceValues(FoldedOf(sd)))
        /\ \A s \in SubIds :
              IF SubdeviceValues(FoldedOf(sd), s) = <<>>
              THEN s \notin DOMAIN WindowOf(sd).subdevice_datas
              ELSE /\ s \in DOMAIN WindowOf(sd).subdevice_datas
                   /\ SummaryOf(WindowOf(sd).subdevice_datas[s],
                                SubdeviceValues(FoldedOf(sd), s))

\* what a getLatestStatistics call of a session for a device reports now
Reported(session_id, device_id) ==
    getLatestStatistics(multi_sessions_data, device_id, session_id)

\* no sample of the device was folded for the session since its last reset
NothingFolded(session_id, device_id) == h_folded[session_id][device_id] = <<>>

\* C13: from a reset of (session, device) until the next sample of that
\* device is folded, getLatestStatistics reports no data for them; once a
\* sample is folded it reports a window; and a call returns what the store
\* holds at the time of the call.
C13_NoDataUntilUpdate ==
    /\ \A session_id \in DOMAIN multi_sessions_data, device_id \in RateDevices :
          NothingFolded(session_id, device_id)
              <=> Reported(session_id, device_id) = NULL
    /\ ~ LockFree =>
          stats_result.p_data =
              Reported(stats_result.session_id, stats_result.device_id)

\* a call reports no data for a session that has reset its window of a
\* device another session still holds
C13_Witness ==
    /\ ~ LockFree
    /\ stats_result.p_data = NULL
    /\ \E other \in Sessions \ {stats_result.session_id} :
          /\ ~ NothingFolded(other, stats_result.device_id)
          /\ Reported(other, stats_result.device_id) # NULL

\* the window that folding the samples h, in order, into no window leaves
RECURSIVE ReplayFrom(_, _)
ReplayFrom(w, h) ==
    IF h = <<>> THEN w
    ELSE ReplayFrom(FoldWindow(w, Head(h).data, Head(h).time), Tail(h))

Replay(h) == ReplayFrom(Deref(OpenWindow(Head(h).data, Head(h).time)), Tail(h))

\* every open window is what its own session folded since its own reset
WindowsReplay == \A sd \in OpenWindows : WindowOf(sd) = Replay(FoldedOf(sd))

\* the (session, device) pairs whose window a step changes
ChangedWindows ==
    {sd \in Sessions \X RateDevices :
        Reported(sd[1], sd[2]) # Reported(sd[1], sd[2])'}

\* a step that folds no sample changes at most one window, which it drops
ResetFrame ==
    stats_clock' = stats_clock =>
        /\ Cardinality(ChangedWindows) <= 1
        /\ \A sd \in ChangedWindows : Reported(sd[1], sd[2])' = NULL

\* C14: windows are keyed by (session, device): each window is determined
\* by the samples its own session folded since its own reset, and a reset
\* changes no window but the one of its session and device.
C14_WindowsIndependent == [] WindowsReplay /\ [][ResetFrame]_vars

\* session 0 has dropped its window of device "0" while its window of
\* device "1" and session 1's window of device "0" are still open
C14_Witness ==
    /\ DOMAIN multi_sessions_data = Sessions
    /\ NothingFolded(0, "0")
    /\ Reported(0, "1") # NULL
    /\ Reported(1, "0") # NULL
    /\ Len(h_folded[1]["0"]) >= 2

\* the window w is the one the sample m opens at time t
FreshWindow(w, m, t) ==
    /\ w.start_time = t
    /\ w.latest_time = t
    /\ w.hasDataOnDevice = m.hasDataOnDevice
    /\ IF m.hasDataOnDevice
       THEN w.count = 1 /\ w.min = m.current /\ w.max = m.current
            /\ w.avg = m.current
       ELSE w.count = 0
    /\ DOMAIN w.subdevice_datas = DOMAIN m.subdevice_datas
    /\ \A s \in DOMAIN m.subdevice_datas :
          /\ w.subdevice_datas[s].count = 1
          /\ w.subdevice_datas[s].min = m.subdevice_datas[s]
          /\ w.subdevice_datas[s].max = m.subdevice_datas[s]
          /\ w.subdevice_datas[s].avg = m.subdevice_datas[s]

\* the first sample folded for a (session, device) opens a fresh window
FirstUpdateOpens ==
    \A session_id \in DOMAIN multi_sessions_data, device_id \in RateDevices :
        NothingFolded(session_id, device_id) /\ ~ NothingFolded(session_id, device_id)'
            => FreshWindow(multi_sessions_data'[session_id][device_id],
                           h_folded'[session_id][device_id][1].data,
                           h_folded'[session_id][device_id][1].time)

\* no window holds anything but the samples folded since its reset
NoEarlierValue ==
    \A sd \in OpenWindows :
        /\ WindowOf(sd).start_time = FoldedOf(sd)[1].time
        /\ WindowOf(sd).latest_time = FoldedOf(sd)[Len(FoldedOf(sd))].time
        /\ WindowOf(sd).count = Len(DeviceValues(FoldedOf(sd)))
        /\ WindowOf(sd).count > 0 =>
              /\ WindowOf(sd).min = SeqMinimum(DeviceValues(FoldedOf(sd)))
              /\ WindowOf(sd).max = SeqMaximum(DeviceValues(FoldedOf(sd)))
        /\ \A s \in DOMAIN WindowOf(sd).subdevice_datas :
              /\ WindowOf(sd).subdevice_datas[s].count
                    = Len(SubdeviceValues(FoldedOf(sd), s))
              /\ WindowOf(sd).subdevice_datas[s].min
                    = SeqMinimum(SubdeviceValues(FoldedOf(sd), s))
              /\ WindowOf(sd).subdevice_datas[s].max
                    = SeqMaximum(SubdeviceValues(FoldedOf(sd), s))

\* C15: the first update after a reset, or the first ever, opens a window
\* that reflects that sample alone: count 1 and min = max = avg = its value,
\* anchored at its timestamp, the device-level part empty when the sample
\* carries sub-device data only; no later window holds a value folded
\* before the reset.
C15_FreshWindowAfterReset == [] NoEarlierValue /\ [][FirstUpdateOpens]_vars

\* session 0 reset its window and then folded one sample of tile 0 alone,
\* while session 1 still holds the earlier samples
C15_Witness ==
    /\ DOMAIN multi_sessions_data = Sessions
    /\ Len(h_folded[0]["0"]) = 1
    /\ ~ h_folded[0]["0"][1].data.hasDataOnDevice
    /\ Len(h_folded[1]["0"]) = 3
    /\ Reported(0, "0") # NULL
    /\ Deref(Reported(0, "0")).count = 0
    /\ Deref(Reported(0, "0")).subdevice_datas[0].count = 1

(* Properties of the rows of the plain queries. *)
\* the last operation was a plain query with a buffer on a known device that
\* returned, getMetricsStatistics with XPUM_OK
RowsReturned ==
    /\ Returned(PlainQueries) /\ last.hasBuffer
    /\ last.deviceId \in KnownDevices
    /\ last.fn = "getMetricsStatistics" => last.result = "XPUM_OK"

\* C16: a successful getMetricsStatistics call and a getLatestMetrics call
\* with a buffer on a device with N sub-devices produce N+1 rows: first the
\* device-level row, then the tile row of each sub-device 0..N-1 in order,
\* whether or not the tile row carries entries.
C16_RowOrder ==
    RowsReturned =>
        /\ Len(last.rows) = num_subdevice + 1
        /\ last.rows[1].isTileData = FALSE
        /\ \A i \in 0 .. (num_subdevice - 1) :
              /\ last.rows[i + 2].isTileData = TRUE
              /\ last.rows[i + 2].tileId = i

\* a statistics query on a device with tiles returns a tile row without
\* entries after a tile row with entries
C16_Witness ==
    /\ RowsReturned /\ last.fn = "getMetricsStatistics"
    /\ num_subdevice = MaxSubdevice
    /\ Len(last.rows) = num_subdevice + 1
    /\ last.rows[2].dataList # <<>>
    /\ last.rows[num_subdevice + 1].dataList = <<>>

\* the sample a plain query uses for a metric type: the statistics query
\* reads the session's statistics, or the idle-power probe for the power
\* metric when the probe reports device data; the snapshot query reads the
\* latest sample
UsedSample(call, type) ==
    IF call.fn = "getMetricsStatistics"
    THEN IF type = "METRIC_POWER" /\ call.idle
         THEN Ptr(IdlePowerData(TRUE))
         ELSE statsData[call.session_id][type]
    ELSE latestData[type]

\* the metric types a plain query reports: enabled, supported, with a sample
ReportedTypes(call) ==
    {t \in PlainMetrics :
        /\ t \in enabledMetrics
        /\ capabilityFromMeasurementType(t) \in capabilities
        /\ UsedSample(call, t) # NULL}

\* the metric type of an entry
TypeOf(entry) == measurementTypeFromXpumStatsType(entry.metricsType)

\* the statistics of the scope of a row in a sample: the device's own, or
\* those of the row's tile
ScopeOf(row, m) == IF row.isTileData THEN m.subdevice_datas[row.tileId] ELSE m

\* an entry of a statistics row in the format of its metric's kind
FormattedEntry(entry, st) ==
    IF isCounterMetric(TypeOf(entry))
    THEN /\ entry.isCounter = TRUE
         /\ entry.accumulated = st.current
         /\ entry.value = st.current - st.min
    ELSE /\ entry.isCounter = FALSE
         /\ entry.value = st.current
         /\ entry.avg = st.avg
         /\ entry.min = st.min
         /\ entry.max = st.max

\* C17: every entry of getMetricsStatistics for a counter metric has
\* isCounter, accumulated = current and value = current - min, and every
\* entry for another metric has value = current and avg, min and max of the
\* statistics, each row using the statistics of its own scope.
C17_EntryFormat ==
    (RowsReturned /\ last.fn = "getMetricsStatistics") =>
        \A i \in 1 .. Len(last.rows) :
            \A j \in 1 .. Len(last.rows[i].dataList) :
                LET entry == last.rows[i].dataList[j]
                IN /\ TypeOf(entry) \in ReportedTypes(last)
                   /\ FormattedEntry(entry,
                         ScopeOf(last.rows[i], Deref(UsedSample(last, TypeOf(entry)))))

\* a statistics query returns a counter entry and a gauge entry in the
\* device-level row and in a tile row
C17_Witness ==
    /\ RowsReturned /\ last.fn = "getMetricsStatistics" /\ ~ last.idle
    /\ \E i \in {1, 2} :
          /\ i <= Len(last.rows)
          /\ Len(last.rows[i].dataList) = 2
          /\ \E j, k \in 1 .. 2 :
                /\ last.rows[i].dataList[j].isCounter
                /\ ~ last.rows[i].dataList[k].isCounter
    /\ Len(last.rows) >= 2
    /\ last.rows[1].dataList # <<>>
    /\ last.rows[2].dataList # <<>>

\* whether a row carries an entry of a metric type
HasEntry(row, type) ==
    \E j \in 1 .. Len(row.dataList) : TypeOf(row.dataList[j]) = type

\* whether a sample has data for the scope of a row
HasDataFor(row, m) ==
    IF row.isTileData
    THEN /\ row.tileId \in DOMAIN m.subdevice_datas
         /\ m.subdevice_datas[row.tileId].current # UINT64_MAX
    ELSE m.hasDataOnDevice

\* C18: a tile row of the plain queries carries an entry of a metric exactly
\* when the metric's sample has data of that sub-device whose current value
\* is not the sentinel, and the device-level row exactly when the sample has
\* device-level data.
C18_EntryPresence ==
    RowsReturned =>
        \A i \in 1 .. Len(last.rows) : \A type \in PlainMetrics :
            HasEntry(last.rows[i], type) <=>
                /\ type \in ReportedTypes(last)
                /\ HasDataFor(last.rows[i], Deref(UsedSample(last, type)))

\* a query returns the rows of a sample whose last tile holds the sentinel:
\* the first tile row carries the entry, the last tile row does not
C18_Witness ==
    /\ RowsReturned /\ num_subdevice = MaxSubdevice
    /\ \E type \in ReportedTypes(last) :
          LET m == Deref(UsedSample(last, type))
          IN /\ MaxSubdevice - 1 \in DOMAIN m.subdevice_datas
             /\ m.subdevice_datas[MaxSubdevice - 1].current = UINT64_MAX
             /\ HasEntry(last.rows[2], type)
             /\ ~ HasEntry(last.rows[num_subdevice + 1], type)
             /\ ~ HasEntry(last.rows[1], type)

\* the sample the queries are to use for a metric type: the idle-power probe
\* for the power metric when the probe reports device data, the pipeline's
\* regular sample otherwise
ExpectedSample(call, type) ==
    IF type = "METRIC_POWER" /\ call.idle
    THEN Ptr(IdlePowerData(TRUE))
    ELSE IF call.fn = "getMetricsStatistics"
         THEN statsData[call.session_id][type]
         ELSE latestData[type]

\* the current value an entry reports
EntryCurrent(entry) ==
    IF last.fn = "getMetricsStatistics" /\ entry.isCounter
    THEN entry.accumulated
    ELSE entry.value

\* C19: in both plain queries the entries of the power metric come from the
\* idle-power probe when the metric is enabled and supported and the probe
\* reports device-level data; otherwise, and for every other metric, they
\* come from the regular sample.
C19_IdlePowerSubstitution ==
    RowsReturned =>
        \A i \in 1 .. Len(last.rows) :
            \A type \in PlainMetrics :
                LET row == last.rows[i]
                    reported ==
                        /\ type \in enabledMetrics
                        /\ capabilityFromMeasurementType(type) \in capabilities
                        /\ ExpectedSample(last, type) # NULL
                        /\ HasDataFor(row, Deref(ExpectedSample(last, type)))
                IN /\ HasEntry(row, type) <=> reported
                   /\ \A j \in 1 .. Len(row.dataList) :
                         TypeOf(row.dataList[j]) = type =>
                            EntryCurrent(row.dataList[j]) =
                               ScopeOf(row, Deref(ExpectedSample(last, type))).current

(* Properties of the sparse-metric retry. *)
\* the fetch of a metric type of the call in progress has ended
FetchOver(type) ==
    type \in DOMAIN r_done /\ (r_types = <<>> \/ Head(r_types) # type)

\* the fetches of the call so far: queries of the retry loop are at least a
\* second apart and none is made after more than RetrySeconds; only a sparse
\* type is retried; a fetch that found a sample ended with that query and the
\* sample is in m_datas; a sparse type without a sample is given up only
\* when RetrySeconds have passed and is left out; any other type without a
\* sample is left out at once
RetryRecord ==
    \A type \in DOMAIN r_done :
        LET f == r_done[type]
        IN /\ f.interval >= 1
           /\ f.lastQuery <= RetrySeconds
           /\ f.retried => type \in SparseMetrics
           /\ FetchOver(type) =>
                 /\ f.found => f.elapsed = f.lastQuery /\ type \in DOMAIN r_datas
                 /\ ~ f.found => type \notin DOMAIN r_datas
                 /\ (~ f.found /\ type \in SparseMetrics) =>
                       f.retried /\ f.elapsed >= RetrySeconds
                 /\ (~ f.found /\ type \notin SparseMetrics) =>
                       ~ f.retried /\ f.elapsed = 0

\* the call returns XPUM_OK with the entries of the types it found
RetryRows ==
    r_result # NULL =>
        /\ Deref(r_result).result = "XPUM_OK"
        /\ \A type \in RetryMetrics :
              HasEntry(Deref(r_result).rows[1], type) <=> r_done[type].found

\* C20: getMetricsStatistics re-queries the store for a sparse metric type
\* without a sample at intervals of a second or more, stops at the query
\* that returns a sample and reports it, gives the type up when 30 seconds
\* have passed and still returns XPUM_OK, and leaves out any other type
\* without a sample at once; the call returns.
C20_SparseRetry ==
    /\ [] RetryRecord
    /\ [] RetryRows
    /\ (r_pc # "idle") ~> (r_pc = "idle")

\* a call returned that left power out at once, found the EU sample on a
\* re-query and gave the RAS type up
C20_Witness ==
    /\ r_result # NULL
    /\ DOMAIN r_done = RetryMetrics
    /\ ~ r_done["METRIC_POWER"].found
    /\ r_done["METRIC_EU_ACTIVE"].found
    /\ r_done["METRIC_EU_ACTIVE"].lastQuery >= 2
    /\ ~ r_done["METRIC_RAS_ERROR_CAT_RESET"].found
    /\ r_done["METRIC_RAS_ERROR_CAT_RESET"].lastQuery = RetrySeconds
    /\ r_done["METRIC_RAS_ERROR_CAT_RESET"].elapsed > RetrySeconds

(* Properties of the time one call blocks. *)
\* the seconds the calling thread has slept in the call that returned
BlockedSeconds == r_now

\* C21: a getMetricsStatistics call that has returned blocked the calling
\* thread for at most 30 seconds in all, however many enabled sparse metric
\* types were without a sample.
C21_CallWithinBound ==
    (r_pc = "idle" /\ r_result # NULL) => BlockedSeconds <= RetrySeconds

(***************************************************************************)
(* Further properties of the multi-entity queries.                          *)
(***************************************************************************)
\* the last operation was one of the queries fns with a buffer, and it came
\* to read the sample of its metric type and found one
ReadSample(fns) ==
    /\ Returned(fns) /\ last.hasBuffer /\ initialized
    /\ last.deviceId \in KnownDevices
    /\ MetricOf(last.fn) \in enabledMetrics
    /\ capabilityFromMeasurementType(MetricOf(last.fn)) \in capabilities
    /\ SampleOf(last) # NULL

\* the entries of an engine sample that are to produce a row: the handle
\* resolves to an engine index and the value is not the "no data" sentinel
EngineEntriesWithData(p_data) ==
    { e \in DOMAIN p_data.multi :
        /\ \E i \in 1 .. Len(engine_handles) : engine_handles[i] = e
        /\ p_data.multi[e].current # UINT64_MAX }

\* C22: an engine query that read a sample returns no error for an entry it
\* cannot resolve or that carries the sentinel; no row has an unresolved
\* index or the sentinel as its value, and a call that returns OK wrote one
\* row for each of the other entries.
C22_EngineEntriesSkipped ==
    ReadSample(EngineQueries) =>
        /\ last.result \in {"XPUM_OK", "XPUM_BUFFER_TOO_SMALL"}
        /\ \A i \in 1 .. Len(last.rows) :
              /\ last.rows[i].index # UINT32_MAX
              /\ last.rows[i].value # UINT64_MAX
        /\ last.result = "XPUM_OK" =>
              Len(last.rows) =
                  Cardinality(EngineEntriesWithData(Deref(SampleOf(last))))

\* the fabric ids of a sample the device knows, in the order of the loop:
\* the i-th row written is the row of the i-th of them
RowIds(p_data) ==
    SelectSeq(Ascending(DOMAIN p_data.multi),
              LAMBDA f : f \in DOMAIN fabric_infos)

\* a counter-type link metric
CounterLink(type) == type \in {"TRANSMITTED_COUNTER", "RECEIVED_COUNTER"}

\* the row of the statistics query for entity e of a sample, as specified
FabricStatsFormat(row, e, type, scale) ==
    IF CounterLink(type)
    THEN /\ row.value = (e.current - e.min) % Modulus
         /\ row.accumulated = e.current
         /\ row.scale = 1
    ELSE /\ row.value = e.current
         /\ row.min = e.min /\ row.avg = e.avg /\ row.max = e.max
         /\ row.scale = scale

\* the row of the snapshot query for entity e of a sample, as specified
FabricMetricFormat(row, e, type, scale) ==
    /\ row.value = e.current
    /\ row.scale = IF CounterLink(type) THEN 1 ELSE scale

\* C23: every row a fabric query wrote has the type of its link and the
\* format of that type: a counter row of the statistics query has value =
\* current - min, accumulated = current and scale 1, a gauge row has value =
\* current, the window's min/avg/max and the sample's scale; a row of the
\* snapshot query has scale 1 for a counter and the sample's scale for a gauge.
C23_FabricRowFormat ==
    (ReadSample(FabricQueries) /\ last.rows # <<>>) =>
        LET p_data == Deref(SampleOf(last))
            ids == RowIds(p_data)
        IN /\ Len(last.rows) <= Len(ids)
           /\ \A i \in 1 .. Len(last.rows) :
                 LET row == last.rows[i]
                     e == p_data.multi[ids[i]]
                     type == fabric_infos[ids[i]].type
                 IN /\ row.type = type
                    /\ IF last.fn = "getFabricThroughputStatistics"
                       THEN FabricStatsFormat(row, e, type, p_data.scale)
                       ELSE FabricMetricFormat(row, e, type, p_data.scale)

\* the statistics query returned a counter row and a gauge row whose scales
\* differ, the counter row with value and accumulated apart
C23_Witness ==
    /\ ReadSample({"getFabricThroughputStatistics"})
    /\ last.result = "XPUM_OK"
    /\ Len(last.rows) = 2
    /\ CounterLink(last.rows[1].type) /\ ~ CounterLink(last.rows[2].type)
    /\ last.rows[1].scale # last.rows[2].scale
    /\ last.rows[1].value # last.rows[1].accumulated
    /\ last.rows[2].min # last.rows[2].max

\* the entries of a sample that are links of the device whose remote fabric
\* no device owns
UnresolvedLinks(p_data) ==
    { f \in DOMAIN p_data.multi :
        /\ f \in DOMAIN fabric_infos
        /\ fabric_infos[f].remote_fabric_id \notin DOMAIN fabric_devices }

\* the links of a sample that precede its first link with an unresolved
\* remote device, all of them when there is none
LinksBefore(p_data) ==
    LET ids == RowIds(p_data)
    IN Cardinality({ i \in 1 .. Len(ids) :
           \A j \in 1 .. i : ids[j] \notin UnresolvedLinks(p_data) })

\* the last operation was a fabric query that came to its loop over the
\* entries: the snapshot query with a buffer of one row or more that holds
\* the rows of the links before the first unresolved one, the
\* statistics query with a buffer for all rows and a sample not older than
\* the session's begin
Emitting ==
    /\ ReadSample(FabricQueries)
    /\ IF last.fn = "getFabricThroughput"
       THEN /\ last.capacity > 0
            /\ last.capacity >= LinksBefore(Deref(SampleOf(last)))
       ELSE /\ Len(RowIds(Deref(SampleOf(last)))) <= last.capacity
            /\ Deref(SampleOf(last)).timestamp >=
                   stats_timestamps["fabric"][SessionSlot(last.session_id)]

\* C24: a fabric query that emits the entries of a sample with a link whose
\* remote device cannot be resolved returns GENERIC_ERROR and leaves the
\* caller's count as it was; a fabric query that returns OK with rows wrote a
\* row for every link of the sample, each with a resolved remote device.
C24_UnresolvedLinkAborts ==
    /\ (Emitting /\ UnresolvedLinks(Deref(SampleOf(last))) # {}) =>
          /\ last.result = "XPUM_GENERIC_ERROR"
          /\ last.count = last.capacity
    /\ (ReadSample(FabricQueries) /\ last.result = "XPUM_OK" /\ last.rows # <<>>) =>
          /\ UnresolvedLinks(Deref(SampleOf(last))) = {}
          /\ Len(last.rows) = Len(RowIds(Deref(SampleOf(last))))

\* both fabric queries aborted: the statistics query ...
AbortedStatistics ==
    /\ Emitting /\ last.fn = "getFabricThroughputStatistics"
    /\ UnresolvedLinks(Deref(SampleOf(last))) # {}
    /\ last.result = "XPUM_GENERIC_ERROR"
\* ... after it wrote the row of the link before the unresolved one
C24_Witness ==
    /\ AbortedStatistics
    /\ Len(last.rows) = 1
    /\ Len(RowIds(Deref(SampleOf(last)))) = 2

(***************************************************************************)
(* Properties of the pipeline operations.                                   *)
(***************************************************************************)
PipelineOps ==
    {"storeMeasurementData", "getLatestData", "getLatestStatistics",
     "updateStatsTimestamp", "getStatsTimestamp",
     "updateEngineStatsTimestamp", "getEngineStatsTimestamp",
     "updateFabricStatsTimestamp", "getFabricStatsTimestamp"}
StatisticsQueries ==
    {"getMetricsStatistics", "getEngineStatistics",
     "getFabricThroughputStatistics"}
\* the values of xpum_result_t the queries return
ResultCodes ==
    {"XPUM_OK", "XPUM_GENERIC_ERROR", "XPUM_BUFFER_TOO_SMALL",
     "XPUM_RESULT_DEVICE_NOT_FOUND", "XPUM_METRIC_NOT_ENABLED",
     "XPUM_METRIC_NOT_SUPPORTED"}

\* a pipeline operation raised the exception exactly when init() had not
\* run; a query that came to the pipeline before init() got the exception
\* and no result code, and no operation raises it after init()
RaisedBeforeInit ==
    /\ last.fn \in PipelineOps =>
          (last.result = "IlegalStateException" <=> ~ initialized)
    /\ (last.fn \in StatisticsQueries /\ ~ initialized) =>
          last.result = "IlegalStateException" /\ last.rows = <<>>
    /\ initialized => last.result \in ResultCodes \cup {"void"}
\* a step that raises the exception changes nothing but the caller's record
RaiseChangesNothing ==
    last'.result = "IlegalStateException" =>
        UNCHANGED <<rateVars, retryVars, initialized, topologyVars, pipelineVars>>

\* C25: before init() every pipeline operation raises the illegal-state
\* exception, which is no result code, and changes no state; after init()
\* none raises it.
C25_IllegalState == [] RaisedBeforeInit /\ [][RaiseChangesNothing]_vars

\* an update of the engine stats timestamp before init() raised
C25_Witness ==
    /\ ~ initialized
    /\ last.fn = "updateEngineStatsTimestamp"
    /\ last.result = "IlegalStateException"
    /\ last.result \notin ResultCodes

\* the last operation was one of the queries fns with a buffer that came to
\* read the sample of its metric type and the pipeline held none
FoundNoSample(fns) ==
    /\ Returned(fns) /\ last.hasBuffer /\ initialized
    /\ last.deviceId \in KnownDevices
    /\ MetricOf(last.fn) \in enabledMetrics
    /\ capabilityFromMeasurementType(MetricOf(last.fn)) \in capabilities
    /\ SampleOf(last) = NULL

\* getMetricsStatistics was called with a buffer for all its rows while the
\* pipeline held no statistics of a plain metric for the session and the
\* idle-power probe reported none
FoundNoStatistics ==
    /\ last.fn = "getMetricsStatistics" /\ last.hasBuffer /\ initialized
    /\ last.deviceId \in KnownDevices
    /\ last.capacity >= num_subdevice + 1
    /\ ~ last.idle
    /\ \A type \in PlainMetrics : statsData[last.session_id][type] = NULL

\* C26: a multi-entity query called with a buffer while the pipeline holds
\* no sample of its metric type returns OK with count = 0 and no row, and
\* getMetricsStatistics without statistics returns OK with N+1 rows, each
\* without a metric entry.
C26_NoDataIsNoError ==
    /\ FoundNoSample(EngineQueries \cup FabricQueries) =>
          /\ last.result = "XPUM_OK"
          /\ last.count = 0
          /\ last.rows = <<>>
    /\ FoundNoStatistics =>
          /\ last.result = "XPUM_OK"
          /\ last.count = num_subdevice + 1
          /\ Len(last.rows) = num_subdevice + 1
          /\ \A i \in 1 .. Len(last.rows) : last.rows[i].dataList = <<>>

(***************************************************************************)
(* Properties of the handler chain.                                         *)
(***************************************************************************)
\* the sample in flight found no baseline when it arrived, lost it to the
\* overflow detection, or has the raw timestamp of the baseline on every
\* device it shares with it
NoBaseline == h_pre = NULL \/ p_preData = NULL
ZeroLengthInterval ==
    /\ h_pre # NULL
    /\ \A d \in DOMAIN Arrived \cap DOMAIN Previous :
          Arrived[d].raw_timestamp = Previous[d].raw_timestamp
NoUpdateCycle == h_arrived # NULL /\ (NoBaseline \/ ZeroLengthInterval)

\* in such a cycle the sample keeps the derived values it arrived with
NoRateWritten ==
    (pc \in {"statistics", "idle"} /\ NoUpdateCycle) => p_latestData = h_arrived
\* the steps of such a cycle, updateStatistics included, leave every window
\* of every session as it was
NoWindowChanged ==
    ((pc' = "idle" /\ h_pre' = NULL) \/ (pc = "statistics" /\ NoUpdateCycle))
        => multi_sessions_data' = multi_sessions_data

\* C27: a sample that arrives without a baseline or with a zero-length
\* interval causes no update: no rate is written and no window of a session
\* is changed while it is handled.
C27_NoUpdateThisCycle == [] NoRateWritten /\ [][NoWindowChanged]_vars

(* Properties of the stats timestamps. *)
\* the family whose timestamp a statistics query returns as begin, and the
\* operation that records it
FamilyOf(fn) ==
    CASE fn = "getMetricsStatistics" -> "stats"
      [] fn = "getEngineStatistics" -> "engine"
      [] fn = "getFabricThroughputStatistics" -> "fabric"
UpdateOf(family) ==
    CASE family = "stats" -> "updateStatsTimestamp"
      [] family = "engine" -> "updateEngineStatsTimestamp"
      [] family = "fabric" -> "updateFabricStatsTimestamp"

\* the begin a statistics query returned is the timestamp its family holds
\* for its session; the plain and the engine query return one whenever they
\* come to the pipeline
BeginIsRecorded ==
    (last.fn \in StatisticsQueries /\ initialized) =>
        /\ last.begin # NULL =>
              Deref(last.begin) =
                 stats_timestamps[FamilyOf(last.fn)][SessionSlot(last.session_id)]
        /\ last.fn # "getFabricThroughputStatistics" => last.begin # NULL
\* the begin a statistics query of a family returns for a session
BeginFor(family, session_id) ==
    stats_timestamps[family][SessionSlot(session_id)]
\* the begin of a family and session changes only by the update of that
\* family for that session (and by init(), which starts the pipeline anew)
OnlyOwnUpdate ==
    \A f \in Families, s \in WideSessions :
        (last'.fn # "init" /\
         stats_timestamps'[f][SessionSlot(s)] # BeginFor(f, s)) =>
            /\ last'.fn = UpdateOf(f)
            /\ last'.session_id = s

\* C28: the begin of a statistics query is the value last recorded by the
\* update of its own family for its own session; an update of another
\* family or session does not change it.
C28_BeginPerFamilyAndSession == [] BeginIsRecorded /\ [][OnlyOwnUpdate]_vars

(* Properties of the locking of the handler chain. *)
\* the copies readers left with while the producer stood between two steps
\* of handleData
ReaderHoldsCopy == stats_result # <<>>
\* C29: the handling of a sample and the readers of the same metric type
\* are serialized: no reader takes its copy while the baseline is dropped
\* or cleared and the rate is not yet computed, nor while a rate is written
\* and the windows are not yet folded.
C29_ReaderSeesWholeHandling ==
    ReaderHoldsCopy => ~ stats_result.partly

(* Properties of the frame of calculateData. *)
\* the device-level counter of a sample has a usable baseline: the baseline
\* holds a device-level counter of the device, neither counter is the
\* sentinel and the interval between them is not empty
DeviceBaseline(pre, m, deviceId) ==
    /\ hasRawDataOnDevice(m)
    /\ deviceId \in DOMAIN pre
    /\ hasRawDataOnDevice(pre[deviceId])
    /\ pre[deviceId].raw_data # UINT64_MAX
    /\ m.raw_data # UINT64_MAX
    /\ pre[deviceId].raw_timestamp # m.raw_timestamp
\* the same for the counter of one sub-device
SubdeviceBaseline(pre, m, deviceId, s) ==
    /\ deviceId \in DOMAIN pre
    /\ s \in DOMAIN m.subdevice_rawdatas
    /\ s \in DOMAIN pre[deviceId].subdevice_rawdatas
    /\ pre[deviceId].subdevice_rawdatas[s].raw_data # UINT64_MAX
    /\ m.subdevice_rawdatas[s].raw_data # UINT64_MAX
    /\ pre[deviceId].subdevice_rawdatas[s].raw_timestamp #
          m.subdevice_rawdatas[s].raw_timestamp
\* the sample with the derived values of another one: what is left of it
\* are the devices, the raw values and the raw timestamps
WithDerivedOf(m, other) ==
    [m EXCEPT !.current = other.current,
              !.subdevice_datas = other.subdevice_datas]
\* a step of calculateData
CalculateDataStep == pc = "calculate" /\ pc' = "statistics"
\* what calculateData leaves alone
CalculateDataFrame ==
    CalculateDataStep =>
        /\ p_preData' = p_preData
        /\ (p_latestData = NULL) = (p_latestData' = NULL)
        /\ p_latestData # NULL =>
              LET old == Deref(p_latestData)
                  new == Deref(p_latestData')
              IN /\ DOMAIN new = DOMAIN old
                 /\ \A d \in DOMAIN old :
                       /\ WithDerivedOf(new[d], old[d]) = old[d]
                       /\ DOMAIN new[d].subdevice_datas =
                             DOMAIN old[d].subdevice_datas
                       /\ new[d].current # old[d].current =>
                             /\ p_preData # NULL
                             /\ DeviceBaseline(Deref(p_preData), old[d], d)
                       /\ \A s \in DOMAIN old[d].subdevice_datas :
                             new[d].subdevice_datas[s] # old[d].subdevice_datas[s] =>
                                /\ p_preData # NULL
                                /\ SubdeviceBaseline(Deref(p_preData), old[d], d, s)

\* C30: calculateData writes only derived values of the incoming sample:
\* the baseline, the sample's devices, raw values and raw timestamps, and
\* the derived value of every entity without a usable baseline stay as
\* they were.
C30_CalculateDataFrame == [][CalculateDataFrame]_vars

\* calculateData has written the device-level rate of a sample while a tile
\* of the sample has no baseline and keeps the value it arrived with
C30_Witness ==
    /\ pc = "statistics"
    /\ p_preData # NULL
    /\ \E d \in DOMAIN Deref(p_latestData) :
          LET m == Deref(p_latestData)[d]
          IN /\ d \in DOMAIN Deref(p_preData)
             /\ m.current # Deref(h_arrived)[d].current
             /\ \E s \in DOMAIN m.subdevice_datas :
                   /\ s \notin DOMAIN Deref(p_preData)[d].subdevice_rawdatas
                   /\ m.subdevice_datas[s] = Deref(h_arrived)[d].subdevice_datas[s]

(* Properties of the sub-device loops. *)
\* the sub-devices of device d that the sample in flight and a baseline
\* both hold
SharedSubdevices(pre, d) ==
    IF d \in DOMAIN pre
    THEN DOMAIN Deref(h_arrived)[d].subdevice_rawdatas
            \cap DOMAIN pre[d].subdevice_rawdatas
    ELSE {}
\* after counterOverflowDetection every decreased sub-device counter is
\* cleared from the baseline
EverySubdeviceChecked ==
    (pc \in {"calculate", "statistics"} /\ h_pre # NULL /\ p_preData # NULL) =>
        \A d \in DOMAIN Deref(h_arrived) :
            \A s \in SharedSubdevices(Deref(h_pre), d) :
                SubdeviceDecreased(d, s) =>
                    s \notin DOMAIN Deref(p_preData)[d].subdevice_rawdatas
\* after calculateData every sub-device with a usable baseline holds its rate
EverySubdeviceRated ==
    (pc = "statistics" /\ p_preData # NULL) =>
        \A d \in DOMAIN Deref(h_arrived) :
            \A s \in SharedSubdevices(Deref(p_preData), d) :
                LET pre == Deref(p_preData)[d].subdevice_rawdatas[s]
                    cur == Deref(h_arrived)[d].subdevice_rawdatas[s]
                IN SubdeviceBaseline(Deref(p_preData), Deref(h_arrived)[d], d, s) =>
                      Deref(p_latestData)[d].subdevice_datas[s] =
                          Rate(pre.raw_data, pre.raw_timestamp,
                               cur.raw_data, cur.raw_timestamp)

\* C31: every sub-device of the incoming sample that has an entry in the
\* previous snapshot is overflow-checked and given a rate, whatever its
\* siblings hold: also when a sibling with a smaller id has no entry.
C31_SubdevicesIndependent == EverySubdeviceChecked /\ EverySubdeviceRated

(* Properties of a device-level counter decrease. *)
\* the device-level counter of some device of the sample in flight decreased
\* against the baseline handleData found
SomeDeviceDecreased ==
    h_pre # NULL /\ \E d \in DOMAIN Arrived : DeviceDecreased(d)
\* counterOverflowDetection has dropped the whole baseline, and after
\* calculateData the sample is as it arrived: no entity was given a rate
WholeBaselineDropped ==
    SomeDeviceDecreased =>
        /\ pc \in {"calculate", "statistics"} => p_preData = NULL
        /\ pc = "statistics" => p_latestData = h_arrived
\* handleData goes on to updateStatistics with the sample
StillFolded ==
    (SomeDeviceDecreased /\ pc # "idle") =>
        /\ pc = "overflow" => pc' = "calculate"
        /\ pc = "calculate" => pc' = "statistics"
        /\ pc = "statistics" =>
              /\ pc' = "idle"
              /\ multi_sessions_data' =
                    updateStatistics(multi_sessions_data, Arrived, stats_clock)

\* C32: a device-level counter decrease on one device drops the previous
\* snapshot of the whole metric type: no device and no sub-device of the
\* sample is given a rate in that cycle, and updateStatistics is still
\* called with the sample.
C32_DecreaseDropsSnapshot == [] WholeBaselineDropped /\ [][StillFolded]_vars

\* the counter of one device decreased while the counter of the other
\* device increased over a non-empty interval, and calculateData has left
\* the other device without a rate
C32_Witness ==
    /\ pc = "statistics"
    /\ h_pre # NULL
    /\ p_preData = NULL
    /\ \E d \in DOMAIN Arrived, e \in DOMAIN Arrived \cap DOMAIN Previous :
          /\ d # e
          /\ DeviceDecreased(d)
          /\ Arrived[e].has_raw_data_on_device
          /\ Previous[e].has_raw_data_on_device
          /\ StrictlyIncreasing(Previous[e].raw_data, Previous[e].raw_timestamp,
                                Arrived[e].raw_data, Arrived[e].raw_timestamp)
          /\ Latest[e].current = Arrived[e].current

(* Properties of the order of a window's fields. *)
\* count, min, avg and max of a window or of a sub-device's window are in
\* order, and so is the value folded last: current - min does not wrap
FieldsOrdered(w, values) ==
    w.count >= 1 =>
        /\ w.min <= w.avg /\ w.avg <= w.max
        /\ values # <<>> =>
              LET current == values[Len(values)]
              IN /\ w.min <= current /\ current <= w.max
                 /\ USub(current, w.min) = current - w.min

BufferTooSmall == last.result = "XPUM_BUFFER_TOO_SMALL"
\* the queries that fill the buffer up to its capacity before they give up
FillingQueries ==
    {"getMetricsStatistics", "getEngineStatistics", "getEngineUtilizations",
     "getFabricThroughput"}

OwnSlot ==
    \A f \in Families, a \in WideSessions, b \in WideSessions :
        (a # b /\ last'.fn = UpdateOf(f) /\ last'.session_id = a
              /\ last'.result = "void") =>
            stats_timestamps'[f][SessionSlot(b)] = BeginFor(f, b)

\* C35: two distinct 64-bit session ids address distinct begin timestamps,
\* as they address distinct statistics windows: no two session ids share a
\* stats-timestamp slot, ids that differ only above bit 31 included.
C35_SessionIdsDistinct == [][OwnSlot]_vars

(* Properties of the stale sample of the fabric statistics. *)
\* the last call was getFabricThroughputStatistics with a buffer that passed
\* the size check, and the sample of its session is older than the begin
\* the session recorded for the fabric family
StaleFabricCall ==
    /\ last.fn = "getFabricThroughputStatistics"
    /\ last.hasBuffer
    /\ initialized
    /\ last.deviceId \in KnownDevices
    /\ MetricEnabled("METRIC_FABRIC_THROUGHPUT")
    /\ MetricSupported("METRIC_FABRIC_THROUGHPUT")
    /\ getFabricThroughputInfoCount > 0
    /\ SampleOf(last) # NULL
    /\ ResolvableTotal(Deref(SampleOf(last))) <= last.capacity
    /\ Deref(SampleOf(last)).timestamp < BeginFor("fabric", last.session_id)

\* C36: getFabricThroughputStatistics returns OK with count 0 and writes no
\* row whenever the sample is older than the session's fabric begin, the
\* buffer having passed the size check.
C36_StaleSampleNotReported ==
    StaleFabricCall =>
        /\ last.result = "XPUM_OK"
        /\ last.count = 0
        /\ last.rows = <<>>

\* a stale call on a device with two links, one of them unresolvable, with
\* a buffer that holds both rows
C36_Witness ==
    /\ StaleFabricCall
    /\ last.capacity >= 2
    /\ ResolvableTotal(Deref(SampleOf(last))) = 2
    /\ UnresolvedLinks(Deref(SampleOf(last))) # {}
(***************************************************************************)
(* DumpRawDataTask: the raw-data dump task (dump_task.cpp).  Strings are    *)
(* TLA+ strings; a line of the file is the sequence of the pieces that      *)
(* were streamed into it, separators included.                              *)
(***************************************************************************)
MaxDumpTime == 2
MaxDumpValue == 3

DumpTimes == 0 .. MaxDumpTime

DigitOf(d) == <<"0", "1", "2", "3", "4", "5", "6", "7", "8", "9">>[d + 1]

\* std::to_string of an unsigned value
RECURSIVE to_string(_)
to_string(n) ==
    IF n < 10 THEN DigitOf(n) ELSE to_string(n \div 10) \o DigitOf(n % 10)

\* keepTwoDecimalPrecision of value / scale: fixed notation, two decimals
keepTwoDecimalPrecision(value, scale) ==
    LET hundredths == (value * 200 + scale) \div (2 * scale)
    IN to_string(hundredths \div 100) \o "." \o
       DigitOf((hundredths % 100) \div 10) \o DigitOf(hundredths % 10)

getScaledValue(value, scale) ==
    IF scale = 1 THEN to_string(value)
    ELSE keepTwoDecimalPrecision(value, scale)

\* the throttle reasons in the order the column tests them; a sample's
\* value is the set of the flags that are set in it
ThrottleReasons ==
    <<"AVE_PWR_CAP", "BURST_PWR_CAP", "CURRENT_LIMIT", "THERMAL_LIMIT",
      "PSU_ALERT", "SW_RANGE", "HW_RANGE">>

\* ss of the throttle-reason column after the flags from index k on
RECURSIVE ThrottleString(_, _)
ThrottleString(flags, k) ==
    IF k > Len(ThrottleReasons) THEN ""
    ELSE (IF ThrottleReasons[k] \in flags
          THEN ThrottleReasons[k] \o " | " ELSE "")
         \o ThrottleString(flags, k + 1)

\* ss.substr(0, ss.size() - 3) for the strings the column builds: each ends
\* with " | ", so the pieces are joined by " | "
RECURSIVE ThrottleJoined(_, _)
ThrottleJoined(flags, k) ==
    IF k > Len(ThrottleReasons) THEN ""
    ELSE IF ThrottleReasons[k] \in flags
         THEN (IF \E j \in k + 1 .. Len(ThrottleReasons) : ThrottleReasons[j] \in flags
               THEN ThrottleReasons[k] \o " | " ELSE ThrottleReasons[k])
              \o ThrottleJoined(flags, k + 1)
         ELSE ThrottleJoined(flags, k + 1)

ThrottleValue(flags) ==
    IF ThrottleString(flags, 1) = "" THEN "Not Throttled"
    ELSE ThrottleJoined(flags, 1)

\* the entries of dumpTypeOptions the task may be given
PowerOption ==
    [name |-> "GPU Power (W)", optionType |-> "DUMP_OPTION_STATS",
     metricsType |-> "XPUM_STATS_POWER", scale |-> 1]
ThrottleOption ==
    [name |-> "Throttle reason", optionType |-> "DUMP_OPTION_THROTTLE_REASON",
     metricsType |-> "XPUM_STATS_FREQUENCY_THROTTLE_REASON_GPU", scale |-> 1]

DumpTypeLists ==
    {<<PowerOption>>, <<ThrottleOption>>, <<PowerOption, ThrottleOption>>,
     <<ThrottleOption, PowerOption>>}

DumpTileIds == {-1, 0}

\* what updateData may leave in rawDataMap: per metric type a sample or
\* nothing
PowerSamples ==
    [timestamp : DumpTimes, value : {0, MaxDumpValue}, scale : {1, 2}]
ThrottleSamples ==
    [timestamp : DumpTimes,
     value : {{}, {"AVE_PWR_CAP"}, {"AVE_PWR_CAP", "THERMAL_LIMIT"}},
     scale : {1}]
RawDataMaps ==
    { [XPUM_STATS_POWER |-> p, XPUM_STATS_FREQUENCY_THROTTLE_REASON_GPU |-> t] :
        p \in {NULL} \cup { Ptr(x) : x \in PowerSamples },
        t \in {NULL} \cup { Ptr(x) : x \in ThrottleSamples } }

\* rawDataMap.find(statsType): the sample, or NULL for m.end()
FindRaw(m, statsType) ==
    IF statsType = "XPUM_STATS_POWER" THEN m.XPUM_STATS_POWER
    ELSE m.XPUM_STATS_FREQUENCY_THROTTLE_REASON_GPU

\* a DumpColumn; lastTimestamp starts at 0
DumpColumn(header, kind, config) ==
    [header |-> header, kind |-> kind, config |-> config, lastTimestamp |-> 0]

\* the columns buildColumns pushes for the entries of dumpTypeList
RECURSIVE OtherColumns(_)
OtherColumns(dumpTypeList) ==
    IF dumpTypeList = <<>> THEN <<>>
    ELSE LET config == Head(dumpTypeList)
         IN <<DumpColumn(config.name, config.optionType, config)>>
            \o OtherColumns(Tail(dumpTypeList))

buildColumns(tileId, dumpTypeList) ==
    <<DumpColumn("Timestamp", "Timestamp", <<>>),
      DumpColumn("DeviceId", "DeviceId", <<>>)>>
    \o (IF tileId # -1 THEN <<DumpColumn("TileId", "TileId", <<>>)>> ELSE <<>>)
    \o OtherColumns(dumpTypeList)

\* the getValue lambda of a DUMP_OPTION_STATS column: the string it returns
\* and the lastTimestamp it leaves
StatsGetValue(dc, m) ==
    LET it == FindRaw(m, dc.config.metricsType)
    IN IF it # NULL
       THEN LET data == Deref(it)
            IN [value |-> IF dc.lastTimestamp # data.timestamp
                          THEN getScaledValue(data.value, data.scale * dc.config.scale)
                          ELSE "",
                lastTimestamp |-> data.timestamp]
       ELSE [value |-> "", lastTimestamp |-> dc.lastTimestamp]

\* the getValue lambda of a DUMP_OPTION_THROTTLE_REASON column: it returns
\* from inside the timestamp test, before lastTimestamp is assigned
ThrottleGetValue(dc, m) ==
    LET it == FindRaw(m, dc.config.metricsType)
    IN IF it # NULL
       THEN LET data == Deref(it)
            IN IF dc.lastTimestamp # data.timestamp
               THEN [value |-> ThrottleValue(data.value),
                     lastTimestamp |-> dc.lastTimestamp]
               ELSE [value |-> "", lastTimestamp |-> data.timestamp]
       ELSE [value |-> "", lastTimestamp |-> dc.lastTimestamp]

\* dc.getValue() with rawDataMap = m; now is the string of the clock and
\* deviceId, tileId those of the task
getValue(dc, m, now, deviceId, tileId) ==
    CASE dc.kind = "Timestamp" -> [value |-> now, lastTimestamp |-> dc.lastTimestamp]
      [] dc.kind = "DeviceId" ->
            [value |-> to_string(deviceId), lastTimestamp |-> dc.lastTimestamp]
      [] dc.kind = "TileId" ->
            [value |-> to_string(tileId), lastTimestamp |-> dc.lastTimestamp]
      [] dc.kind = "DUMP_OPTION_STATS" -> StatsGetValue(dc, m)
      [] dc.kind = "DUMP_OPTION_THROTTLE_REASON" -> ThrottleGetValue(dc, m)

\* the pieces writeHeader streams: the headers separated by ", "
RECURSIVE HeaderLine(_, _)
HeaderLine(columnList, i) ==
    IF i > Len(columnList) THEN <<>>
    ELSE <<columnList[i].header>>
         \o (IF i < Len(columnList) THEN <<", ">> ELSE <<>>)
         \o HeaderLine(columnList, i + 1)

\* the pieces the periodic lambda streams: the values, "N/A" for an empty
\* one, separated by ","
RECURSIVE RowLine(_, _)
RowLine(values, i) ==
    IF i > Len(values) THEN <<>>
    ELSE <<IF values[i] = "" THEN "N/A" ELSE values[i]>>
         \o (IF i < Len(values) THEN <<",">> ELSE <<>>)
         \o RowLine(values, i + 1)

\* Utility::getCurrentLocalTimeString: a time of day, or "" when localtime
\* fails
LocalTimeStrings == {"", "12:00:00.000"}

DumpDeviceId == 0

\* DumpRawDataTask::start up to the scheduling: the columns are built and
\* the header is written
DumpStart ==
    /\ d_columnList = <<>>
    /\ d_columnList' = buildColumns(d_config.tileId, d_config.dumpTypeList)
    /\ d_file' = [header |-> HeaderLine(d_columnList', 1), row |-> NULL]
    /\ h_printed' = [i \in DOMAIN d_columnList' |-> NULL]
    /\ UNCHANGED <<d_config, d_rawDataMap, batchVars, tableVars, rateVars, queryVars, retryVars>>

\* one run of the periodic lambda: updateData leaves m in rawDataMap, every
\* column yields its value in order, and the row is written
DumpTick(m, now) ==
    /\ d_columnList # <<>>
    /\ d_rawDataMap' = m
    /\ LET got == [i \in DOMAIN d_columnList |->
                      getValue(d_columnList[i], m, now, DumpDeviceId, d_config.tileId)]
       IN /\ d_columnList' =
                [i \in DOMAIN d_columnList |->
                    [d_columnList[i] EXCEPT !.lastTimestamp = got[i].lastTimestamp]]
          /\ d_file' = [d_file EXCEPT
                           !.row = Ptr(RowLine([i \in DOMAIN got |-> got[i].value], 1))]
          /\ h_printed' =
                [i \in DOMAIN d_columnList |->
                    IF /\ d_columnList[i].config # <<>>
                       /\ got[i].value # ""
                    THEN Ptr(Deref(FindRaw(m, d_columnList[i].config.metricsType)).timestamp)
                    ELSE h_printed[i]]
    /\ UNCHANGED <<d_config, batchVars, tableVars, rateVars, queryVars, retryVars>>

DumpInit ==
    /\ RateInit
    /\ RetryIdle
    /\ DataLogicIdle
    /\ BatchIdle
    /\ TableIdle
    /\ \E tileId \in DumpTileIds, dumpTypeList \in DumpTypeLists :
          d_config = [tileId |-> tileId, dumpTypeList |-> dumpTypeList]
    /\ d_columnList = <<>>
    /\ d_rawDataMap = <<>>
    /\ d_file = <<>>
    /\ h_printed = <<>>

DumpNext ==
    \/ DumpStart
    \/ \E m \in RawDataMaps, now \in LocalTimeStrings : DumpTick(m, now)

SpecDump == DumpInit /\ [][DumpNext]_vars
(***************************************************************************)
(* C37                                                                      *)
(***************************************************************************)
\* the number of fields of a line: one more than its separators
Fields(line) ==
    1 + Cardinality({ k \in DOMAIN line : line[k] \in {",", ", "} })

\* the field of column i in a line
FieldOf(line, i) == line[2 * i - 1]

RowAsWideAsHeader ==
    (d_file # <<>> /\ d_file.row # NULL) =>
        /\ Fields(d_file.header) = Len(d_columnList)
        /\ Fields(Deref(d_file.row)) = Fields(d_file.header)

\* column i meets, in the tick that is being taken, the sample whose value
\* it printed last
SameSampleAgain(i) ==
    /\ d_columnList # <<>>
    /\ d_file'.row # NULL
    /\ h_printed[i] # NULL
    /\ FindRaw(d_rawDataMap', d_columnList[i].config.metricsType) # NULL
    /\ Deref(FindRaw(d_rawDataMap', d_columnList[i].config.metricsType)).timestamp
          = Deref(h_printed[i])

ColumnsOfKind(kinds) ==
    { i \in DOMAIN d_columnList : d_columnList[i].kind \in kinds }

OncePerSampleFor(kinds) ==
    \A i \in ColumnsOfKind(kinds) :
        SameSampleAgain(i) => FieldOf(Deref(d_file'.row), i) = "N/A"

StatsOncePerSample == [][OncePerSampleFor({"DUMP_OPTION_STATS"})]_vars
ThrottleOncePerSample == [][OncePerSampleFor({"DUMP_OPTION_THROTTLE_REASON"})]_vars
RowWidth == [] RowAsWideAsHeader

\* C37: in the dump task a STATS or THROTTLE_REASON column that meets the
\* sample it printed last yields an empty value, shown as N/A in the row,
\* and every data row has as many fields as the header has columns.
C37_PrintedOncePerSample ==
    /\ [] RowAsWideAsHeader
    /\ [][OncePerSampleFor({"DUMP_OPTION_STATS", "DUMP_OPTION_THROTTLE_REASON"})]_vars

\* a STATS column has met again the sample it printed and the row shows N/A
C37_StatsWitness ==
    /\ d_file # <<>>
    /\ d_file.row # NULL
    /\ \E i \in ColumnsOfKind({"DUMP_OPTION_STATS"}) :
          /\ h_printed[i] # NULL
          /\ d_rawDataMap.XPUM_STATS_POWER # NULL
          /\ Deref(d_rawDataMap.XPUM_STATS_POWER).timestamp = Deref(h_printed[i])
          /\ FieldOf(Deref(d_file.row), i) = "N/A"
(***************************************************************************)
(* Utility::parallel_in_batches (utility.cpp).  unsigned and int are        *)
(* BatchBits wide.                                                          *)
(***************************************************************************)
BatchBits == 3
MaxThreads == 3

UnsignedMax == 2 ^ BatchBits - 1
IntMax == 2 ^ (BatchBits - 1) - 1
IntMin == - (2 ^ (BatchBits - 1))
IntRange == IntMin .. IntMax

\* the conversion of an unsigned value to int
ToInt(u) == IF u > IntMax THEN u - 2 ^ BatchBits ELSE u

\* what a + b may give in int arithmetic: the sum, or anything when it
\* overflows
IntAdd(a, b) == IF a + b \in IntRange THEN {a + b} ELSE IntRange

\* real_batch_size of the loop iteration that finds batch_remainder
RealBatchSize(batch_size, batch_remainder) ==
    IF batch_remainder > 0 THEN IntAdd(ToInt(batch_size), 1) ELSE {ToInt(batch_size)}

\* the call up to the loop: the early return for no elements, the clamp of
\* num_threads and the batch sizes
BatchEnter(num_elements, num_threads, use_multithreading) ==
    /\ IF b_frame = <<>> THEN TRUE ELSE b_frame.pc = "returned"
    /\ LET threads == IF num_threads > num_elements THEN num_elements ELSE num_threads
       IN b_frame' =
             [pc |-> IF num_elements = 0 THEN "returned" ELSE "loop",
              num_elements |-> num_elements,
              arg_num_threads |-> num_threads,
              num_threads |-> threads,
              use_multithreading |-> use_multithreading,
              batch_size |-> IF num_elements = 0 THEN 0 ELSE num_elements \div threads,
              batch_remainder |-> IF num_elements = 0 THEN 0 ELSE num_elements % threads,
              start |-> 0,
              i |-> 0]
    /\ b_calls' = <<>>
    /\ UNCHANGED <<dumpVars, tableVars, rateVars, queryVars, retryVars>>

\* one iteration of the loop: the functor is handed to a new thread, or
\* called and finished when use_multithreading is false
BatchLaunch ==
    /\ b_frame # <<>>
    /\ b_frame.pc = "loop"
    /\ b_frame.i < b_frame.num_threads
    /\ \E real_batch_size \in RealBatchSize(b_frame.batch_size, b_frame.batch_remainder) :
       \E end \in IntAdd(b_frame.start, real_batch_size) :
       \E next \in IntAdd(b_frame.start, real_batch_size) :
          /\ b_calls' = Append(b_calls,
                               [start |-> b_frame.start, end |-> end,
                                finished |-> ~ b_frame.use_multithreading])
          /\ b_frame' =
                [b_frame EXCEPT
                    !.batch_remainder = IF @ > 0 THEN @ - 1 ELSE @,
                    !.start = next,
                    !.i = @ + 1,
                    !.pc = IF b_frame.i + 1 < b_frame.num_threads THEN "loop"
                           ELSE IF b_frame.use_multithreading THEN "join"
                           ELSE "returned"]
    /\ UNCHANGED <<dumpVars, tableVars, rateVars, queryVars, retryVars>>

\* the functor of thread k returns
FunctorFinish(k) ==
    /\ k \in DOMAIN b_calls
    /\ ~ b_calls[k].finished
    /\ b_calls' = [b_calls EXCEPT ![k].finished = TRUE]
    /\ UNCHANGED <<b_frame, dumpVars, tableVars, rateVars, queryVars, retryVars>>

\* std::for_each(..., &std::thread::join) gets through once every thread
\* has finished
BatchJoin ==
    /\ b_frame # <<>>
    /\ b_frame.pc = "join"
    /\ \A k \in DOMAIN b_calls : b_calls[k].finished
    /\ b_frame' = [b_frame EXCEPT !.pc = "returned"]
    /\ UNCHANGED <<b_calls, dumpVars, tableVars, rateVars, queryVars, retryVars>>

BatchInit ==
    /\ RateInit
    /\ RetryIdle
    /\ DataLogicIdle
    /\ DumpIdle
    /\ BatchIdle
    /\ TableIdle

BatchNext ==
    \/ \E num_elements \in 0 .. UnsignedMax, num_threads \in 1 .. MaxThreads,
          use_multithreading \in BOOLEAN :
          BatchEnter(num_elements, num_threads, use_multithreading)
    \/ BatchLaunch
    \/ \E k \in 1 .. MaxThreads : FunctorFinish(k)
    \/ BatchJoin

SpecBatch == BatchInit /\ [][BatchNext]_vars

(***************************************************************************)
(* C38                                                                      *)
(***************************************************************************)
BatchReturned == b_frame # <<>> /\ b_frame.pc = "returned"

BatchCount ==
    IF b_frame.arg_num_threads < b_frame.num_elements
    THEN b_frame.arg_num_threads ELSE b_frame.num_elements

SizeOf(call) == call.end - call.start

\* the invocations are contiguous half-open ranges that cover
\* [0, num_elements) in ascending order
Partitions ==
    /\ b_calls[1].start = 0
    /\ b_calls[Len(b_calls)].end = b_frame.num_elements
    /\ \A k \in DOMAIN b_calls : b_calls[k].start < b_calls[k].end
    /\ \A k \in 1 .. Len(b_calls) - 1 : b_calls[k].end = b_calls[k + 1].start

LargerFirst ==
    \A k \in DOMAIN b_calls : \A j \in DOMAIN b_calls :
        k < j => /\ SizeOf(b_calls[k]) >= SizeOf(b_calls[j])
                 /\ SizeOf(b_calls[k]) - SizeOf(b_calls[j]) <= 1

BatchesAsClaimed ==
    BatchReturned =>
        IF b_frame.num_elements = 0 THEN b_calls = <<>>
        ELSE /\ Len(b_calls) = BatchCount
             /\ Partitions
             /\ LargerFirst
             /\ \A k \in DOMAIN b_calls : b_calls[k].finished

\* C38: for num_elements >= 1 and num_threads >= 1 parallel_in_batches has,
\* when it returns, invoked the functor on min(num_threads, num_elements)
\* contiguous ranges that partition [0, num_elements), larger batches
\* first, and all invocations have finished; for num_elements = 0 it
\* invokes nothing.
C38_BatchesPartition == BatchesAsClaimed

\* the same for the element counts an int holds
BatchesWithinInt ==
    (BatchReturned /\ b_frame.num_elements <= IntMax) => BatchesAsClaimed
(***************************************************************************)
(* Utility's type tables, called one after the other.                       *)
(***************************************************************************)
Range(s) == { s[k] : k \in DOMAIN s }

\* the measurement types the tables may be asked about: those of
\* getMetricsTypes, METRIC_PERF and METRIC_MAX
MeasurementTypes == Range(getMetricsTypes) \cup {"METRIC_PERF", "METRIC_MAX"}

XpumStatsTypes ==
    { xpumStatsTypeFromMeasurementType(m) : m \in MeasurementTypes }

\* the capabilities the tables name
DeviceCapabilities ==
    { capabilityFromMeasurementType(m) : m \in MeasurementTypes }
    \cup {"DeviceCapability::METRIC_ENERGY",
          "DeviceCapability::METRIC_RAS_ERROR",
          "DeviceCapability::METRIC_PERF",
          "DeviceCapability::DEVICE_CAPABILITY_MAX"}

\* the call is recorded after the one before it
Recorded(fn, arg, result) ==
    /\ u_calls' = (IF u_calls = <<>> THEN <<>> ELSE <<u_calls[Len(u_calls)]>>)
                  \o <<[fn |-> fn, arg |-> arg, result |-> result]>>
    /\ UNCHANGED <<dumpVars, batchVars, rateVars, queryVars, retryVars>>

CallXpumStatsTypeFromMeasurementType(m) ==
    Recorded("xpumStatsTypeFromMeasurementType", m,
             xpumStatsTypeFromMeasurementType(m))

CallMeasurementTypeFromXpumStatsType(s) ==
    Recorded("measurementTypeFromXpumStatsType", s,
             measurementTypeFromXpumStatsType(s))

CallCapabilityFromMeasurementType(m) ==
    Recorded("capabilityFromMeasurementType", m,
             capabilityFromMeasurementType(m))

CallMeasurementTypeFromCapability(c) ==
    Recorded("measurementTypeFromCapability", c,
             measurementTypeFromCapability(c))

TablesInit ==
    /\ RateInit
    /\ RetryIdle
    /\ DataLogicIdle
    /\ TaskIdle

TablesNext ==
    \/ \E m \in MeasurementTypes : CallXpumStatsTypeFromMeasurementType(m)
    \/ \E s \in XpumStatsTypes : CallMeasurementTypeFromXpumStatsType(s)
    \/ \E m \in MeasurementTypes : CallCapabilityFromMeasurementType(m)
    \/ \E c \in DeviceCapabilities : CallMeasurementTypeFromCapability(c)

SpecTables == TablesInit /\ [][TablesNext]_vars

(***************************************************************************)
(* C39                                                                      *)
(***************************************************************************)
\* the last call was fn, on the result of a call of before
Chained(before, fn) ==
    /\ Len(u_calls) = 2
    /\ u_calls[1].fn = before
    /\ u_calls[2].fn = fn
    /\ u_calls[2].arg = u_calls[1].result

StatsTypeRoundTrip ==
    (/\ Chained("xpumStatsTypeFromMeasurementType", "measurementTypeFromXpumStatsType")
     /\ u_calls[1].arg \in Range(getMetricsTypes))
        => u_calls[2].result = u_calls[1].arg

RealCapability ==
    \A k \in DOMAIN u_calls :
        (/\ u_calls[k].fn = "capabilityFromMeasurementType"
         /\ u_calls[k].arg \in Range(getMetricsTypes))
            => u_calls[k].result # "DeviceCapability::DEVICE_CAPABILITY_MAX"

CapabilityRoundTrip ==
    (/\ Chained("measurementTypeFromCapability", "capabilityFromMeasurementType")
     /\ u_calls[1].result # "METRIC_MAX")
        => u_calls[2].result = u_calls[1].arg

\* C39: for every type m of getMetricsTypes the stats type of m maps back to
\* m and the capability of m is not DEVICE_CAPABILITY_MAX, and every
\* capability that has a metric type is the capability of that type.
C39_TablesRoundTrip ==
    /\ StatsTypeRoundTrip
    /\ RealCapability
    /\ CapabilityRoundTrip

\* the stats type of the media engine frequency has been mapped back
C39_Witness ==
    /\ Chained("xpumStatsTypeFromMeasurementType", "measurementTypeFromXpumStatsType")
    /\ u_calls[1].arg = "METRIC_MEDIA_ENGINE_FREQUENCY"
    /\ u_calls[2].result = "METRIC_MEDIA_ENGINE_FREQUENCY"

\* a capability shared by several types has been mapped to its type and back
C39_CapabilityWitness ==
    /\ Chained("measurementTypeFromCapability", "capabilityFromMeasurementType")
    /\ u_calls[1].arg = "DeviceCapability::METRIC_RAS_ERROR"
    /\ u_calls[2].result = "DeviceCapability::METRIC_RAS_ERROR"

====
